---- MODULE Spec2Model ----
(***************************************************************************)
(* Relax virtual machine with the segment runner (src/unnamed/part_000 is  *)
(* src/runtime/relax_vm/vm.cc; include/tvm/runtime/relax_vm/vm.h holds the *)
(* frame, the frame guard and the register access).                        *)
(*                                                                         *)
(* Every entry point of the VM (segment_runner.load, .run, .set_input,     *)
(* .get_output, .get_skeleton, invoke_closure) is one atomic action: the   *)
(* VM is single threaded.  The handlers are operators from a VM record to  *)
(* a result record [vm, st, ret]; st is "ok", "throw" (an ICHECK, a        *)
(* LOG(FATAL) or the standard library raised an exception through the      *)
(* handler), "crash" (the process died on undefined behaviour), "wild"     *)
(* (undefined behaviour that the process survived: the handler's result is *)
(* garbage) or "diverge" (the dispatch loop did not stop within MaxFuel    *)
(* instructions).  What a handler printed is the field log of its VM.      *)
(***************************************************************************)
EXTENDS Integers, Sequences, FiniteSets, TLC

VARIABLES
  exec_,                     \* the loaded executable (VMExecutable)
  pc_,                       \* Index pc_{0}
  frames_,                   \* std::vector<std::unique_ptr<VMFrame>> frames_
  frame_free_list_,          \* std::vector<std::unique_ptr<VMFrame>> frame_free_list_
  return_value_,             \* RegType return_value_
  per_segment_pc_list_,      \* std::vector<std::vector<int>>
  are_segments_initialized_, \* bool, false at construction
  segments_frame_,           \* std::unique_ptr<VMFrame>, NULL at construction
  prev_segment_id,           \* static int prev_segment_id = -1 of SegmentRunnerRun
  inputs_,                   \* std::unordered_map<std::string, std::vector<RegType>>
  outputs_,                  \* std::unordered_map<std::string, RegType>
  saved_closures_,           \* std::unordered_map<std::string, VMClosure>
  instrument_,               \* PackedFunc instrument_ = nullptr
  crashed,                   \* the process was killed by undefined behaviour
  last,                      \* the last call made by the driver and what it returned
  nops,                      \* number of calls the driver has made
  drv                        \* position of the end-to-end driver (SpecE2E only)

vars == <<exec_, pc_, frames_, frame_free_list_, return_value_, per_segment_pc_list_,
          are_segments_initialized_, segments_frame_, prev_segment_id, inputs_, outputs_,
          saved_closures_, instrument_, crashed, last, nops, drv>>

-----------------------------------------------------------------------------
(* Bounds of the model.                                                    *)

\* instructions one entry point may decode before the model calls it divergent
MaxFuel == 12
\* segments the table may hold after a Load (the table only ever grows)
MaxTable == 3
\* largest value a driver supplies as an input tensor
MaxInput == 1
\* calls the driver makes on one VM
MaxOps == 3

-----------------------------------------------------------------------------
(* Values.  A register holds null or a value; tensors and scalars are      *)
(* modelled by integers.                                                   *)

\* A register value: nullptr (the state of a default TVMRetValue), an integer or
\* tensor payload, or the opaque VM context pointer.
NullValue == [tag |-> "null"]
IntVal(n) == [tag |-> "int", v |-> n]
VMContextPtr == [tag |-> "handle"]

\* int64_t cond_val = ReadRegister(...): the integer read of a register.
\* A never-written register reads as zero (spec 4.8).
AsInt64(v) == IF v.tag = "int" THEN v.v ELSE 0

\* Instruction::kBeginSpecialReg, kVoidRegister, kVMRegister (bytecode.h);
\* the source's 1 << 54 is scaled down to TLC's integers.
kBeginSpecialReg == 1024
kVoidRegister == kBeginSpecialReg + 0
kVMRegister == kBeginSpecialReg + 1

\* std::unordered_map<std::string, T>: the entries [name, v] in the order of
\* their insertion, at most one for a name
EmptyMap == << >>
\* map.count(name)
Count(map, name) == Cardinality({i \in 1..Len(map) : map[i].name = name})
\* map[name] of a name that is present, map.at(name)
At(map, name) == map[CHOOSE i \in 1..Len(map) : map[i].name = name].v
\* map[name] = v
Put(map, name, v) ==
  IF Count(map, name) = 0 THEN Append(map, [name |-> name, v |-> v])
  ELSE [i \in 1..Len(map) |-> IF map[i].name = name THEN [name |-> name, v |-> v]
                                ELSE map[i]]

\* PackedFunc instrument_ = nullptr
NoInstrument == "nullptr"

\* std::stoi's upper limit
INT_MAX == 2147483647

-----------------------------------------------------------------------------
(* Instructions and executables (the opaque Executable of spec 3 and 6).   *)

Reg(r) == [kind |-> "kRegister", value |-> r]
Imm(i) == [kind |-> "kImmediate", value |-> i]

ICall(dst, func_idx, args) == [op |-> "Call", dst |-> dst, func_idx |-> func_idx, args |-> args]
IRet(result) == [op |-> "Ret", result |-> result]
IGoto(pc_offset) == [op |-> "Goto", pc_offset |-> pc_offset]
IIf(cond, false_offset) == [op |-> "If", cond |-> cond, false_offset |-> false_offset]

FPacked(name) == [name |-> name, kind |-> "kPackedFunc", num_args |-> 0,
                  register_file_size |-> 0, start_instr |-> 0]
FVM(name, num_args, register_file_size, start_instr) ==
  [name |-> name, kind |-> "kVMFunc", num_args |-> num_args,
   register_file_size |-> register_file_size, start_instr |-> start_instr]
FTIR(name, num_args, register_file_size) ==
  [name |-> name, kind |-> "kVMTIRFunc", num_args |-> num_args,
   register_file_size |-> register_file_size, start_instr |-> 0]

\* Native kernels, deterministic.
KernelApply(name, args) ==
  CASE name = "add"   -> IntVal(AsInt64(args[1]) + AsInt64(args[2]))
    [] name = "mul"   -> IntVal(AsInt64(args[1]) * AsInt64(args[2]))
    [] name = "one"   -> IntVal(1)
    [] name = "ten"   -> IntVal(10)
    [] name = "twenty" -> IntVal(20)
    [] name = "pack"  -> [tag |-> "tuple", items |-> args]
    [] OTHER -> NullValue

\* a kernel that raises an error when it is called
KernelRaises(name) == name = "fail"

\* scenario 1: main(x) = Ret r0
ExecIdentity ==
  [name |-> "identity",
   func_table |-> <<FVM("main", 1, 1, 0)>>,
   instrs |-> <<IRet(0)>>]

\* scenario 2: r1 = add(r0, 3); r2 = mul(r1, 2); Ret r2
ExecTwoCall ==
  [name |-> "twocall",
   func_table |-> <<FVM("main", 1, 3, 0), FPacked("add"), FPacked("mul")>>,
   instrs |-> <<ICall(1, 2, <<Reg(0), Imm(3)>>), ICall(2, 3, <<Reg(1), Imm(2)>>), IRet(2)>>]

\* a branch on the input: c != 0 gives ten(), c = 0 gives twenty()
ExecCondInput ==
  [name |-> "condinput",
   func_table |-> <<FVM("main", 1, 2, 0), FPacked("ten"), FPacked("twenty")>>,
   instrs |-> <<IIf(0, 3), ICall(1, 2, <<>>), IGoto(2), ICall(1, 3, <<>>), IRet(1)>>]

\* a branch on a value a Call computed
ExecCondCall ==
  [name |-> "condcall",
   func_table |-> <<FVM("main", 1, 3, 0), FPacked("one"), FPacked("add")>>,
   instrs |-> <<ICall(1, 2, <<>>), IIf(1, 2), ICall(2, 3, <<Reg(0), Imm(5)>>), IRet(2)>>]

\* main calls the bytecode function helper, which calls a kernel; main starts at pc 2
ExecNested ==
  [name |-> "nested",
   func_table |-> <<FVM("helper", 1, 2, 0), FVM("main", 1, 3, 2), FPacked("add")>>,
   instrs |-> <<ICall(1, 3, <<Reg(0), Imm(1)>>), IRet(1),
                ICall(1, 1, <<Reg(0)>>), ICall(2, 3, <<Reg(1), Reg(1)>>), IRet(2)>>]

\* an executable without a function named main
ExecNoMain ==
  [name |-> "nomain",
   func_table |-> <<FVM("entry", 1, 1, 0)>>,
   instrs |-> <<IRet(0)>>]

Executables == {ExecIdentity, ExecTwoCall, ExecCondInput, ExecCondCall, ExecNested, ExecNoMain}

\* exec_->func_map.find(name): the index of the function, 0 for end()
FuncMapFind(exec, name) ==
  LET hits == {i \in 1..Len(exec.func_table) : exec.func_table[i].name = name}
  IN IF hits = {} THEN 0 ELSE CHOOSE i \in hits : TRUE

\* exec_->instr_offset.size()
InstrCount(exec) == Len(exec.instrs)

\* exec_->GetInstruction(pc); the pc of the source counts from 0
GetInstruction(exec, pc) == exec.instrs[pc + 1]

\* GetFuncName(idx); function indices of the model count from 1
GetFuncName(exec, idx) == exec.func_table[idx].name

-----------------------------------------------------------------------------
(* Frames (vm.h, VMFrame) and the frame pool.                              *)

\* std::vector<RegType>(n): n default (null) registers
NullRegisters(n) == [i \in 1..n |-> NullValue]

\* VMFrame::VMFrame(pc, register_file_size); id tells the frame objects apart:
\* the frames PushFrame allocates are numbered from 1, the persistent frame
\* of the segments is 0
VMFrame(pc, register_file_size) ==
  [return_pc |-> pc,
   register_file |-> NullRegisters(register_file_size),
   caller_return_register |-> 0,
   call_arg_values |-> <<>>,
   id |-> 0]

\* (variant for comparison: the registers keep their values)
FrameClearKeeping(f) ==
  [f EXCEPT !.caller_return_register = 0,
            !.call_arg_values = <<>>]

\* VMFrame::Clear
FrameClear(f) ==
  [f EXCEPT !.caller_return_register = 0,
            !.call_arg_values = <<>>,
            !.register_file = NullRegisters(Len(f.register_file))]

\* VMFrame::ResetForRecycle: std::vector::resize keeps the leading registers and
\* appends default ones
ResetForRecycle(f, pc, register_file_size) ==
  [f EXCEPT !.return_pc = pc,
            !.register_file = [i \in 1..register_file_size |->
                                 IF i <= Len(f.register_file) THEN f.register_file[i]
                                 ELSE NullValue]]

\* (variant for comparison: the recycled frame stays on the free list too)
PushFrameCopying(vm, ret_pc, vm_func) ==
  IF vm.frame_free_list_ # <<>>
  THEN [vm EXCEPT !.frames_ =
          Append(vm.frames_,
                 ResetForRecycle(vm.frame_free_list_[Len(vm.frame_free_list_)], ret_pc,
                                 vm_func.register_file_size))]
  ELSE [vm EXCEPT !.frames_ = Append(vm.frames_,
                                     [VMFrame(ret_pc, vm_func.register_file_size)
                                        EXCEPT !.id = vm.allocated + 1]),
                  !.allocated = vm.allocated + 1]

\* PushFrame together with FrameGuard's constructor; allocated counts the
\* frames made by std::make_unique
PushFrame(vm, ret_pc, vm_func) ==
  IF vm.frame_free_list_ # <<>>
  THEN LET n == Len(vm.frame_free_list_)
           new_frame == ResetForRecycle(vm.frame_free_list_[n], ret_pc,
                                        vm_func.register_file_size)
       IN [vm EXCEPT !.frame_free_list_ = SubSeq(vm.frame_free_list_, 1, n - 1),
                     !.frames_ = Append(vm.frames_, new_frame)]
  ELSE [vm EXCEPT !.frames_ = Append(vm.frames_,
                                     [VMFrame(ret_pc, vm_func.register_file_size)
                                        EXCEPT !.id = vm.allocated + 1]),
                  !.allocated = vm.allocated + 1]

\* (variant for comparison: the guard's exit also clears the persistent frame,
\* as if that frame were on the active stack)
FrameGuardExitClearing(vm) ==
  LET n == Len(vm.frames_)
  IN [vm EXCEPT !.pc_ = vm.frames_[n].return_pc,
                !.frame_free_list_ = Append(vm.frame_free_list_, FrameClear(vm.frames_[n])),
                !.frames_ = SubSeq(vm.frames_, 1, n - 1),
                !.segments_frame_ = IF @ = <<>> THEN @ ELSE <<FrameClear(@[1])>>]

\* (variant for comparison: the guard's exit leaves the pc where the callee
\* stopped)
FrameGuardExitKeepingPc(vm) ==
  LET n == Len(vm.frames_)
  IN [vm EXCEPT !.frame_free_list_ = Append(vm.frame_free_list_, FrameClear(vm.frames_[n])),
                !.frames_ = SubSeq(vm.frames_, 1, n - 1)]

\* FrameGuard::~FrameGuard
FrameGuardExit(vm) ==
  LET n == Len(vm.frames_)
  IN [vm EXCEPT !.pc_ = vm.frames_[n].return_pc,
                !.frame_free_list_ = Append(vm.frame_free_list_, FrameClear(vm.frames_[n])),
                !.frames_ = SubSeq(vm.frames_, 1, n - 1)]

\* A VMFrame* of the source: 0 is segments_frame_.get(), k >= 1 is frames_[k-1].get()
SegFrameRef == 0
IsNullFrame(vm, ref) == ref = SegFrameRef /\ vm.segments_frame_ = <<>>
GetFrame(vm, ref) == IF ref = SegFrameRef THEN vm.segments_frame_[1] ELSE vm.frames_[ref]
SetFrame(vm, ref, f) ==
  IF ref = SegFrameRef THEN [vm EXCEPT !.segments_frame_ = <<f>>]
  ELSE [vm EXCEPT !.frames_[ref] = f]

\* A handler's result.
Ok(vm, ret) == [vm |-> vm, st |-> "ok", ret |-> ret]
Fail(vm, st) == [vm |-> vm, st |-> st, ret |-> NullValue]

\* WriteRegister: ICHECK_LT(reg, register_file.size()), an unsigned comparison
\* that a negative reg fails too, then the store.  A null frame is
\* dereferenced: undefined behaviour, outcome vm.ub.
WriteRegister(vm, ref, reg, obj) ==
  IF IsNullFrame(vm, ref) THEN Fail(vm, vm.ub)
  ELSE LET f == GetFrame(vm, ref)
       IN IF ~(reg >= 0 /\ reg < Len(f.register_file)) THEN Fail(vm, "throw")
          ELSE Ok(SetFrame(vm, ref, [f EXCEPT !.register_file[reg + 1] = obj]), NullValue)

\* ReadRegister: no bounds check on an ordinary register
ReadRegister(vm, ref, reg) ==
  IF reg < kBeginSpecialReg
  THEN IF IsNullFrame(vm, ref) THEN Fail(vm, vm.ub)
       ELSE LET f == GetFrame(vm, ref)
            IN IF reg >= 0 /\ reg < Len(f.register_file) THEN Ok(vm, f.register_file[reg + 1])
               ELSE Fail(vm, vm.ub)
  ELSE IF reg = kVoidRegister THEN Ok(vm, NullValue)
  ELSE IF reg = kVMRegister THEN Ok(vm, VMContextPtr)
  ELSE Fail(vm, "throw")

\* DLOG / std::cout of a handler; d is the depth of the frame stack at the time
Emit(vm, msg, n) ==
  [vm EXCEPT !.log = Append(vm.log, [msg |-> msg, n |-> n, d |-> Len(vm.frames_)])]

-----------------------------------------------------------------------------
(* Instruction interpretation.                                             *)

\* Sequencing of two steps of a handler: when the first one raised, died or
\* diverged, the rest is skipped
Bind(r, Rest(_)) == IF r.st # "ok" THEN r ELSE Rest(r)

\* one argument of a Call by its tag (the switch of RunInstrCall)
ArgValue(vm, ref, arg) ==
  CASE arg.kind = "kRegister" -> ReadRegister(vm, ref, arg.value)
    [] arg.kind = "kImmediate" -> Ok(vm, IntVal(arg.value))
    [] OTHER -> Fail(vm, "throw")

RECURSIVE CallArgs(_, _, _, _)
\* the argument loop of RunInstrCall, from argument i on
CallArgs(vm, ref, args, i) ==
  IF i > Len(args) THEN Ok(vm, <<>>)
  ELSE Bind(ArgValue(vm, ref, args[i]),
            LAMBDA one : Bind(CallArgs(vm, ref, args, i + 1),
                              LAMBDA rest : Ok(vm, <<one.ret>> \o rest.ret)))

RECURSIVE WriteArgs(_, _, _, _)
\* for (i = 0; i < args.size(); ++i) WriteRegister(frame, i, args[i])
WriteArgs(vm, ref, args, i) ==
  IF i > Len(args) THEN Ok(vm, NullValue)
  ELSE Bind(WriteRegister(vm, ref, i - 1, args[i]),
            LAMBDA w : WriteArgs(w.vm, ref, args, i + 1))

RECURSIVE RunLoopFrom(_, _, _)
RECURSIVE InvokeBytecode(_, _, _, _)

\* the closure GetClosureInternal makes of a kVMTIRFunc: the argument count and
\* the register file size are checked, the compiled function runs on a
\* register file of its own and the register after the inputs is returned
TIRClosure(vm, finfo, args) ==
  IF Len(args) # finfo.num_args THEN Fail(vm, "throw")
  ELSE IF ~(finfo.register_file_size >= finfo.num_args + 1) THEN Fail(vm, "throw")
  ELSE Ok(vm, KernelApply(finfo.name, args))

\* InvokeClosurePacked on func_pool_[func_idx]: a native kernel is called, a
\* bytecode closure calls InvokeBytecode with the VM as context
InvokeClosurePacked(vm, func_idx, args, fuel) ==
  IF vm.exec_.func_table[func_idx].kind = "kPackedFunc"
  THEN IF KernelRaises(vm.exec_.func_table[func_idx].name) THEN Fail(vm, "throw")
       ELSE Ok(vm, KernelApply(vm.exec_.func_table[func_idx].name, args))
  ELSE IF vm.exec_.func_table[func_idx].kind = "kVMTIRFunc"
  THEN TIRClosure(vm, vm.exec_.func_table[func_idx], args)
  ELSE InvokeBytecode(vm, func_idx, args, fuel)

\* curr_frame->call_arg_values.resize(...) and the setter calls
SetCallArgs(vm, ref, values) ==
  SetFrame(vm, ref, [GetFrame(vm, ref) EXCEPT !.call_arg_values = values])

\* the tail of RunInstrCall: the return value goes to dst unless dst is a
\* special register, then pc_++
SaveReturn(vm, ref, dst, ret) ==
  Bind(IF dst < kBeginSpecialReg THEN WriteRegister(vm, ref, dst, ret) ELSE Ok(vm, NullValue),
       LAMBDA w : Ok([w.vm EXCEPT !.pc_ = w.vm.pc_ + 1], NullValue))

\* VMInstrumentReturnKind (vm.h 53-58)
kNoOp == 0
kSkipRun == 1

\* a DLDataType argument (type code kTVMDataType)
DTypeVal(code, bits) == [tag |-> "dtype", code |-> code, bits |-> bits]

\* std::string str_dtype = args[i]: the name of the type code followed by the
\* bits, as a string argument (type code kTVMStr)
DTypeString(v) ==
  [tag |-> "str",
   s |-> (IF v.code = "float" THEN <<"f", "l", "o", "a", "t">> ELSE <<"i", "n", "t">>)
         \o (CASE v.bits = 8 -> <<"8">>
               [] v.bits = 16 -> <<"1", "6">>
               [] v.bits = 32 -> <<"3", "2">>
               [] OTHER -> <<"6", "4">>)]

\* the loop over the arguments before the first call of the instrument: an
\* argument with type code kTVMDataType is overwritten by its string
DTypesToStrings(values) ==
  [i \in 1..Len(values) |-> IF values[i].tag = "dtype" THEN DTypeString(values[i])
                            ELSE values[i]]

\* what the installed instrument returns when it is called for function name;
\* the instruments differ in their replies: always no-op, always skip, skip
\* for the kernel add only, a string, an integer that is no return kind
InstrumentReply(instrument, name, before) ==
  CASE instrument = "noop" -> IntVal(kNoOp)
    [] instrument = "skip" -> IntVal(kSkipRun)
    [] instrument = "skipadd" -> IF name = "add" THEN IntVal(kSkipRun) ELSE IntVal(kNoOp)
    [] instrument = "text" -> [tag |-> "str", s |-> <<"1">>]
    [] OTHER -> IntVal(2)

\* the record of a call made from RunInstrCall: of the instrument before
\* ("pre") or after ("post") the real call, of the real call ("real") and of
\* its return ("returned"); d is the depth of the frame stack
Note(vm, what, func_idx, args, ret, reply) ==
  [vm EXCEPT !.hooks = Append(@, [what |-> what, func_idx |-> func_idx, args |-> args,
                                  ret |-> ret, reply |-> reply, d |-> Len(vm.frames_)])]

\* (variant for comparison: a reply that is no integer counts as SkipRun)
RetKindOfAny(rv) ==
  IF rv.tag = "int" THEN rv.v ELSE kSkipRun

\* ret_kind after the first call of the instrument: the reply when its type
\* code is kDLInt, else kNoOp
RetKind(rv) ==
  IF rv.tag = "int" THEN rv.v ELSE kNoOp

\* the values of the call in the frame's call_arg_values, and the first call
\* of the instrument when one is installed: function, name, before = true,
\* nullptr, then the arguments.  The result is what the real call is given and
\* whether it is skipped.
BeforeCall(vm, ref, func_idx, values) ==
  IF vm.instrument_ = NoInstrument
  THEN Ok(SetCallArgs(vm, ref, values), [skip |-> FALSE, args |-> values])
  ELSE Ok(Note(SetCallArgs(vm, ref, <<[tag |-> "func", v |-> func_idx],
                                      [tag |-> "name", v |-> GetFuncName(vm.exec_, func_idx)],
                                      IntVal(1), NullValue>> \o DTypesToStrings(values)),
               "pre", func_idx, DTypesToStrings(values), NullValue,
               InstrumentReply(vm.instrument_, GetFuncName(vm.exec_, func_idx), TRUE)),
          [skip |-> RetKind(InstrumentReply(vm.instrument_,
                                            GetFuncName(vm.exec_, func_idx), TRUE)) = kSkipRun,
           args |-> DTypesToStrings(values)])

\* this->InvokeClosurePacked(func_pool_[instr.func_idx], args, &ret)
RealCall(vm, func_idx, args, fuel) ==
  Bind(InvokeClosurePacked(Note(vm, "real", func_idx, args, NullValue, NullValue),
                           func_idx, args, fuel),
       LAMBDA c : Ok(Note(c.vm, "returned", func_idx, <<>>, c.ret, NullValue), c.ret))

\* setter(2, false); setter(3, ret) and the second call of the instrument,
\* when one is installed
AfterCall(vm, ref, func_idx, args, ret) ==
  IF vm.instrument_ = NoInstrument THEN Ok(vm, ret)
  ELSE Ok(Note(SetCallArgs(vm, ref, <<[tag |-> "func", v |-> func_idx],
                                      [tag |-> "name", v |-> GetFuncName(vm.exec_, func_idx)],
                                      IntVal(0), ret>> \o args),
               "post", func_idx, args, ret,
               InstrumentReply(vm.instrument_, GetFuncName(vm.exec_, func_idx), FALSE)),
          ret)

\* RunInstrCall
RunInstrCall(vm, ref, instr, fuel) ==
  IF IsNullFrame(vm, ref) THEN Fail(Emit(vm, "call", vm.pc_), vm.ub)
  ELSE Bind(CallArgs(Emit(vm, "call", vm.pc_), ref, instr.args, 1),
            LAMBDA a :
              IF ~(instr.func_idx <= Len(vm.exec_.func_table)) THEN Fail(a.vm, "throw")
              ELSE Bind(BeforeCall(a.vm, ref, instr.func_idx, a.ret),
                        LAMBDA h :
                          IF h.ret.skip THEN SaveReturn(h.vm, ref, instr.dst, NullValue)
                          ELSE Bind(RealCall(h.vm, instr.func_idx, h.ret.args, fuel),
                                    LAMBDA c :
                                      Bind(AfterCall(c.vm, ref, instr.func_idx, h.ret.args, c.ret),
                                           LAMBDA p : SaveReturn(p.vm, ref, instr.dst, c.ret)))))

\* (variant for comparison: the branch taken the other way round)
RunInstrIfSwapped(vm, ref, instr) ==
  Bind(ReadRegister(vm, ref, instr.cond),
       LAMBDA c :
         IF AsInt64(c.ret) = 0 THEN Ok([vm EXCEPT !.pc_ = vm.pc_ + 1], NullValue)
         ELSE IF ~(instr.false_offset > 1) THEN Fail(vm, "throw")
         ELSE Ok([vm EXCEPT !.pc_ = vm.pc_ + instr.false_offset], NullValue))

\* (variant for comparison: an If whose false_offset is not above 1 falls
\* through to the instruction the offset names)
RunInstrIfFallThrough(vm, ref, instr) ==
  Bind(ReadRegister(vm, ref, instr.cond),
       LAMBDA c :
         IF AsInt64(c.ret) # 0 THEN Ok([vm EXCEPT !.pc_ = vm.pc_ + 1], NullValue)
         ELSE Ok([vm EXCEPT !.pc_ = vm.pc_ + instr.false_offset], NullValue))

\* the If case as RunLoop, SegmentRunnerRun and SegmentRunnerGetSkeleton spell it
RunInstrIf(vm, ref, instr) ==
  Bind(ReadRegister(vm, ref, instr.cond),
       LAMBDA c :
         IF AsInt64(c.ret) # 0 THEN Ok([vm EXCEPT !.pc_ = vm.pc_ + 1], NullValue)
         ELSE IF ~(instr.false_offset > 1) THEN Fail(vm, "throw")
         ELSE Ok([vm EXCEPT !.pc_ = vm.pc_ + instr.false_offset], NullValue))

\* the Goto and If cases
RunInstrBranch(vm, ref, instr) ==
  IF instr.op = "Goto" THEN Ok([vm EXCEPT !.pc_ = vm.pc_ + instr.pc_offset], NullValue)
  ELSE RunInstrIf(vm, ref, instr)

\* the Ret handler once return_value_ is read: with a parent frame on the stack
\* the value also goes to the parent's register caller_return_register
ReturnToCaller(vm, caller_return_register) ==
  IF Len(vm.frames_) <= 1 THEN Ok(vm, vm.return_value_)
  ELSE Bind(WriteRegister(vm, Len(vm.frames_) - 1, caller_return_register, vm.return_value_),
            LAMBDA w : Ok(w.vm, vm.return_value_))

\* the Ret case of RunLoop
RunInstrRet(vm, ref, instr) ==
  Bind(ReadRegister(vm, ref, instr.result),
       LAMBDA r : ReturnToCaller([vm EXCEPT !.return_value_ = r.ret],
                                 GetFrame(vm, ref).caller_return_register))

\* one instruction of RunLoop that is not a Ret
RunInstr(vm, ref, instr, fuel) ==
  IF instr.op = "Call" THEN RunInstrCall(vm, ref, instr, fuel)
  ELSE RunInstrBranch(vm, ref, instr)

\* RunLoop's while (true), with curr_frame = frame ref; the loop is cut after
\* fuel instructions
RunLoopFrom(vm, ref, fuel) ==
  IF fuel = 0 THEN Fail(vm, "diverge")
  ELSE IF ~(vm.pc_ >= 0 /\ vm.pc_ < InstrCount(vm.exec_)) THEN Fail(vm, "throw")
  ELSE IF GetInstruction(vm.exec_, vm.pc_).op = "Ret"
  THEN RunInstrRet(vm, ref, GetInstruction(vm.exec_, vm.pc_))
  ELSE Bind(RunInstr(vm, ref, GetInstruction(vm.exec_, vm.pc_), fuel - 1),
            LAMBDA s : RunLoopFrom(s.vm, ref, fuel - 1))

\* RunLoop: curr_frame = frames_.back().get()
RunLoop(vm, fuel) == RunLoopFrom(vm, Len(vm.frames_), fuel)

\* (variant for comparison: the frame is popped on the normal path only)
UnwindOnReturn(r) ==
  IF r.st = "ok" THEN [r EXCEPT !.vm = FrameGuardExit(r.vm)] ELSE r

\* FrameGuard's destructor runs on the normal path and when an exception unwinds
Unwind(r) ==
  IF r.st \in {"ok", "throw"} THEN [r EXCEPT !.vm = FrameGuardExit(r.vm)] ELSE r

\* InvokeBytecode after PushFrame: the caller's dst, the argument count check,
\* the arguments, pc_ = start_instr, RunLoop, return return_value_
InvokeInFrame(vm, gfunc, curr_instr, args, fuel) ==
  IF gfunc.num_args # Len(args)
  THEN Fail(vm, "throw")
  ELSE Bind(WriteArgs(IF curr_instr.op = "Call"
                      THEN [vm EXCEPT !.frames_[Len(vm.frames_)].caller_return_register =
                                         curr_instr.dst]
                      ELSE vm,
                      Len(vm.frames_), args, 1),
            LAMBDA w : Bind(RunLoop([w.vm EXCEPT !.pc_ = gfunc.start_instr], fuel),
                            LAMBDA r : Ok(r.vm, r.vm.return_value_)))

\* InvokeBytecode(gf_idx, args); the read of the instruction at pc_ is not
\* guarded by a range check
InvokeBytecode(vm, gf_idx, args, fuel) ==
  IF vm.exec_.func_table[gf_idx].kind # "kVMFunc" THEN Fail(vm, "throw")
  ELSE IF ~(vm.pc_ >= 0 /\ vm.pc_ < InstrCount(vm.exec_)) THEN Fail(vm, vm.ub)
  ELSE Unwind(InvokeInFrame(PushFrame(vm, vm.pc_, vm.exec_.func_table[gf_idx]),
                            vm.exec_.func_table[gf_idx],
                            GetInstruction(vm.exec_, vm.pc_), args, fuel))

-----------------------------------------------------------------------------
(* Text.  A std::string is a sequence of one-character strings.            *)

NL == "\n"
\* std::isspace in the C locale, which is also the regex class \s (the
\* vertical tab has no TLA+ spelling and is left out)
IsSpace(c) == c \in {" ", "\t", "\n", "\r", "\f"}
Digits == <<"0", "1", "2", "3", "4", "5", "6", "7", "8", "9">>
\* std::isdigit, the regex class \d
IsDigit(c) == \E d \in 1..10 : Digits[d] = c
DigitValue(c) == (CHOOSE d \in 1..10 : Digits[d] = c) - 1

RECURSIVE SplitLines(_)
\* while (std::getline(iss, line)): the lines of a text, the terminator removed;
\* a final line without terminator counts, an empty rest does not
SplitLines(text) ==
  IF text = <<>> THEN <<>>
  ELSE LET nls == {i \in 1..Len(text) : text[i] = NL}
       IN IF nls = {} THEN <<text>>
          ELSE LET i == CHOOSE k \in nls : \A m \in nls : k <= m
               IN <<SubSeq(text, 1, i - 1)>> \o SplitLines(SubSeq(text, i + 1, Len(text)))

RECURSIVE TrimStart(_, _)
\* while (trim_start < line.size() && isspace(line[trim_start])) trim_start++
TrimStart(line, trim_start) ==
  IF trim_start < Len(line) /\ IsSpace(line[trim_start + 1])
  THEN TrimStart(line, trim_start + 1) ELSE trim_start

RECURSIVE TrimEnd(_, _, _)
\* while (trim_end > trim_start && isspace(line[trim_end])) trim_end--
TrimEnd(line, trim_start, trim_end) ==
  IF trim_end > trim_start /\ IsSpace(line[trim_end + 1])
  THEN TrimEnd(line, trim_start, trim_end - 1) ELSE trim_end

\* line.substr(trim_start, trim_end - trim_start + 1) of a non-empty line
Trim(line) ==
  LET trim_start == TrimStart(line, 0)
      trim_end == TrimEnd(line, trim_start, Len(line) - 1)
  IN SubSeq(line, trim_start + 1, trim_end + 1)

RECURSIVE TrimmedLines(_)
\* the preprocessing loop of SegmentRunnerLoad: empty lines and lines that trim
\* to nothing are dropped
TrimmedLines(lines) ==
  IF lines = <<>> THEN <<>>
  ELSE LET line == Head(lines)
           rest == TrimmedLines(Tail(lines))
       IN IF line = <<>> THEN rest
          ELSE IF Trim(line) = <<>> THEN rest
          ELSE <<Trim(line)>> \o rest

RECURSIVE SkipWhile(_, _, _)
\* first position >= i of s (counting from 1) whose character is not of the
\* class: the greedy \s* and \d+
SkipWhile(s, i, digits) ==
  IF i <= Len(s) /\ (IF digits THEN IsDigit(s[i]) ELSE IsSpace(s[i]))
  THEN SkipWhile(s, i + 1, digits) ELSE i

\* A match of pc\s*=\s*(\d+) that starts at position i: [from, to) of the
\* capture, or <<>> when there is none
MatchAt(s, i) ==
  IF ~(i + 1 <= Len(s) /\ s[i] = "p" /\ s[i + 1] = "c") THEN <<>>
  ELSE LET j == SkipWhile(s, i + 2, FALSE)
       IN IF ~(j <= Len(s) /\ s[j] = "=") THEN <<>>
          ELSE LET k == SkipWhile(s, j + 1, FALSE)
                   e == SkipWhile(s, k, TRUE)
               IN IF e = k THEN <<>> ELSE <<k, e>>

RECURSIVE RegexMatches(_, _)
\* std::sregex_iterator over the line: the non-overlapping matches, left to right
RegexMatches(s, i) ==
  IF i > Len(s) THEN <<>>
  ELSE LET m == MatchAt(s, i)
       IN IF m = <<>> THEN RegexMatches(s, i + 1)
          ELSE <<SubSeq(s, m[1], m[2] - 1)>> \o RegexMatches(s, m[2])

RECURSIVE StoI(_, _)
\* std::stoi of a digit string: its value, or -1 for std::out_of_range
StoI(digits, acc) ==
  IF digits = <<>> THEN acc
  ELSE LET d == DigitValue(Head(digits))
       IN IF acc > (INT_MAX - d) \div 10 THEN -1
          ELSE StoI(Tail(digits), acc * 10 + d)

RECURSIVE ToDigits(_)
\* operator<< of a non-negative integer
ToDigits(n) ==
  IF n < 10 THEN <<Digits[n + 1]>> ELSE ToDigits(n \div 10) \o <<Digits[(n % 10) + 1]>>

SegLine == <<"@", "s", "e", "g">>

-----------------------------------------------------------------------------
(* The segment runner (part_000, 672-1021).                                *)

StrVal(chars) == [tag |-> "str", s |-> chars]

\* the name of a function as characters
NameChars(name) ==
  CASE name = "add" -> <<"a", "d", "d">>
    [] name = "mul" -> <<"m", "u", "l">>
    [] name = "one" -> <<"o", "n", "e">>
    [] name = "ten" -> <<"t", "e", "n">>
    [] name = "twenty" -> <<"t", "w", "e", "n", "t", "y">>
    [] name = "helper" -> <<"h", "e", "l", "p", "e", "r">>
    [] OTHER -> <<"f">>

\* oss << "pc = " << pc_ << ", execute: " << GetFuncName(instr.func_idx) << std::endl
SkeletonLine(pc, name) ==
  <<"p", "c", " ", "=", " ">> \o ToDigits(pc)
    \o <<",", " ", "e", "x", "e", "c", "u", "t", "e", ":", " ">> \o NameChars(name) \o <<NL>>

\* one pass of the switch of SegmentRunnerGetSkeleton on an instruction that is
\* not a Ret: a Call is listed and stepped over, a branch is followed
SkeletonStep(vm, ref, instr) ==
  IF instr.op = "Call"
  THEN Ok([vm EXCEPT !.pc_ = vm.pc_ + 1],
          SkeletonLine(vm.pc_, GetFuncName(vm.exec_, instr.func_idx)))
  ELSE Bind(RunInstrBranch(vm, ref, instr), LAMBDA b : Ok(b.vm, <<>>))

RECURSIVE SkeletonWalk(_, _, _, _)
\* the while (!is_finished) loop of SegmentRunnerGetSkeleton; GetInstruction is
\* not guarded by a range check here
SkeletonWalk(vm, ref, output_str, fuel) ==
  IF fuel = 0 THEN Fail(vm, "diverge")
  ELSE IF ~(vm.pc_ >= 0 /\ vm.pc_ < InstrCount(vm.exec_)) THEN Fail(vm, vm.ub)
  ELSE IF GetInstruction(vm.exec_, vm.pc_).op = "Ret" THEN Ok(vm, StrVal(output_str))
  ELSE Bind(SkeletonStep(vm, ref, GetInstruction(vm.exec_, vm.pc_)),
            LAMBDA s : SkeletonWalk(s.vm, ref, output_str \o s.ret, fuel - 1))

\* (variant for comparison: the walk without the frame guard's exit)
SkeletonOfUnguarded(vm, gfunc) ==
  SkeletonWalk([vm EXCEPT !.pc_ = gfunc.start_instr], Len(vm.frames_), <<>>, MaxFuel)

\* SegmentRunnerGetSkeleton once main is found
SkeletonOf(vm, gfunc) ==
  Unwind(SkeletonWalk([vm EXCEPT !.pc_ = gfunc.start_instr], Len(vm.frames_), <<>>, MaxFuel))

\* SegmentRunnerGetSkeleton
SegmentRunnerGetSkeleton(vm) ==
  IF FuncMapFind(vm.exec_, "main") = 0 THEN Fail(vm, "throw")
  ELSE SkeletonOf(PushFrame(vm, vm.pc_, vm.exec_.func_table[FuncMapFind(vm.exec_, "main")]),
                  vm.exec_.func_table[FuncMapFind(vm.exec_, "main")])

\* the body of the parsing loop for a line that is not "@seg", its matches
\* counted: no match and several matches are reported, std::stoi may throw, and
\* the pc goes to the back of the last segment
ParseLine(table, matches) ==
  IF Len(matches) = 0 THEN [table |-> table, st |-> "error"]
  ELSE IF Len(matches) > 1 THEN [table |-> table, st |-> "error"]
  ELSE IF StoI(matches[1], 0) < 0 THEN [table |-> table, st |-> "throw"]
  ELSE [table |-> [table EXCEPT ![Len(table)] = Append(@, StoI(matches[1], 0))], st |-> "ok"]

\* one pass of the parsing loop of SegmentRunnerLoad
ParseStep(table, line) ==
  IF line = SegLine THEN [table |-> Append(table, <<>>), st |-> "ok"]
  ELSE ParseLine(table, RegexMatches(line, 1))

RECURSIVE ParseFrom(_, _, _)
\* the parsing loop from line i on, p the outcome of the lines before
ParseFrom(p, lines, i) ==
  IF p.st # "ok" \/ i > Len(lines) THEN p
  ELSE ParseFrom(ParseStep(p.table, lines[i]), lines, i + 1)

\* the parsing loop of SegmentRunnerLoad over the trimmed lines: it appends to
\* per_segment_pc_list_ as it goes
ParseSegments(table, lines) == ParseFrom([table |-> table, st |-> "ok"], lines, 1)

\* a Load that keeps a trailing empty segment: C5_LoadBuildsTable tells it from
\* PopEmptyBack
KeepEmptyBack(table) == table

\* if (per_segment_pc_list_.back().empty()) per_segment_pc_list_.pop_back()
PopEmptyBack(table) ==
  IF table[Len(table)] = <<>> THEN SubSeq(table, 1, Len(table) - 1) ELSE table

\* a Load that makes a persistent frame only when there is none yet and keeps
\* the one it finds: C8_FreshFrameAfterLoad tells it from LoadFrame
LoadFrameKeep(vm, main_it) ==
  IF main_it = 0 THEN Fail(vm, "throw")
  ELSE Ok([vm EXCEPT !.pc_ = vm.exec_.func_table[main_it].start_instr,
                     !.segments_frame_ =
                        IF vm.segments_frame_ # <<>> THEN vm.segments_frame_
                        ELSE <<VMFrame(main_it - 1,
                                       vm.exec_.func_table[main_it].register_file_size)>>],
          IntVal(Len(vm.per_segment_pc_list_)))

\* the end of SegmentRunnerLoad: main is looked up, pc_ goes to its first
\* instruction, a new frame replaces segments_frame_, the segment count returns
LoadFrame(vm, main_it) ==
  IF main_it = 0 THEN Fail(vm, "throw")
  ELSE Ok([vm EXCEPT !.pc_ = vm.exec_.func_table[main_it].start_instr,
                     !.segments_frame_ =
                        <<VMFrame(main_it - 1, vm.exec_.func_table[main_it].register_file_size)>>],
          IntVal(Len(vm.per_segment_pc_list_)))

\* SegmentRunnerLoad after the parsing loop
LoadParsed(vm, p) ==
  IF p.st = "error"
  THEN Ok(Emit([vm EXCEPT !.per_segment_pc_list_ = p.table], "SegmentsInfoParsingError", 3),
          IntVal(-1))
  ELSE IF p.st = "throw" THEN Fail([vm EXCEPT !.per_segment_pc_list_ = p.table], "throw")
  ELSE LoadFrame([vm EXCEPT !.per_segment_pc_list_ = PopEmptyBack(p.table),
                            !.are_segments_initialized_ = TRUE],
                 FuncMapFind(vm.exec_, "main"))

\* SegmentRunnerLoad after the preprocessing.  front() of an empty line vector
\* is undefined behaviour: the process dies, or the garbage read differs from
\* "@seg".
LoadLines(vm, segements_info_lines) ==
  IF segements_info_lines = <<>>
  THEN IF vm.ub = "crash" THEN Fail(vm, "crash")
       ELSE Ok(Emit(vm, "SegmentsInfoParsingError", 1), IntVal(-1))
  ELSE IF segements_info_lines[1] # SegLine
  THEN Ok(Emit(vm, "SegmentsInfoParsingError", 1), IntVal(-1))
  ELSE IF segements_info_lines[Len(segements_info_lines)] # SegLine
  THEN Ok(Emit(vm, "SegmentsInfoParsingError", 2), IntVal(-1))
  ELSE LoadParsed(vm, ParseSegments(vm.per_segment_pc_list_, segements_info_lines))

\* SegmentRunnerLoad
SegmentRunnerLoad(vm, segments_info) ==
  IF segments_info = <<>> THEN Ok(Emit(vm, "SegmentsInfoParsingError", 0), IntVal(-1))
  ELSE LoadLines(vm, TrimmedLines(SplitLines(segments_info)))

\* _SegmentRunnerSetInput (the packed entry segment_runner.set_input): the
\* missing frame is reported but not returned from, and the inputs are taken
\* from args[1] on; std::vector(args.size() - 1) of no argument throws
SegmentRunnerSetInputPacked(vm, args) ==
  IF Len(args) = 0
  THEN Fail(IF vm.segments_frame_ = <<>> THEN Emit(vm, "InvalidSegmentsFrame", 0) ELSE vm,
            "throw")
  ELSE Bind(WriteArgs(IF vm.segments_frame_ = <<>> THEN Emit(vm, "InvalidSegmentsFrame", 0)
                      ELSE vm,
                      SegFrameRef, Tail(args), 1),
            LAMBDA w : Ok(w.vm, IntVal(0)))

\* SegmentRunnerSetInput(NDArray& input, std::vector<NDArray>& params)
SegmentRunnerSetInput(vm, input, params) ==
  IF vm.segments_frame_ = <<>> THEN Ok(Emit(vm, "InvalidSegmentsFrame", 0), IntVal(-1))
  ELSE Bind(WriteArgs(vm, SegFrameRef, <<input>> \o params, 1),
            LAMBDA w : Ok(w.vm, IntVal(0)))

\* Instruction is a union: result shares its storage with dst, pc_offset and cond
ResultField(instr) ==
  CASE instr.op = "Ret" -> instr.result
    [] instr.op = "Call" -> instr.dst
    [] instr.op = "Goto" -> instr.pc_offset
    [] OTHER -> instr.cond

\* (variant for comparison: the value return_value_ holds already is returned,
\* no register is read)
GetOutputAtStale(vm, instr) == Ok(vm, vm.return_value_)

\* (variant for comparison: the value is moved out of the register, which is
\* left null)
GetOutputAtMoving(vm, instr) ==
  Bind(ReadRegister(vm, SegFrameRef, ResultField(instr)),
       LAMBDA r :
         Bind(WriteRegister(vm, SegFrameRef, ResultField(instr), NullValue),
              LAMBDA w : Ok([w.vm EXCEPT !.return_value_ = r.ret], r.ret)))

\* _SegmentRunnerGetOutput once the instruction at pc_ is fetched: the notice
\* when it is no Ret, then the Ret handler on segments_frame_ all the same
GetOutputAt(vm, instr) ==
  Bind(ReadRegister(vm, SegFrameRef, ResultField(instr)),
       LAMBDA r :
         IF IsNullFrame(vm, SegFrameRef) THEN Fail([vm EXCEPT !.return_value_ = r.ret], vm.ub)
         ELSE ReturnToCaller([vm EXCEPT !.return_value_ = r.ret],
                             GetFrame(vm, SegFrameRef).caller_return_register))

\* _SegmentRunnerGetOutput (the packed entry segment_runner.get_output)
SegmentRunnerGetOutput(vm) ==
  IF ~(vm.pc_ >= 0 /\ vm.pc_ < InstrCount(vm.exec_)) THEN Fail(vm, vm.ub)
  ELSE GetOutputAt(IF GetInstruction(vm.exec_, vm.pc_).op # "Ret"
                   THEN Emit(vm, "OutputError", 0) ELSE vm,
                   GetInstruction(vm.exec_, vm.pc_))

\* the switch of SegmentRunnerRun; st "ret" is the early return -1 of the Ret
\* case
RunSegmentInstr(vm, instr) ==
  IF instr.op = "Ret" THEN Fail(Emit(vm, "RunSegmentError", 1), "ret")
  ELSE RunInstr(vm, SegFrameRef, instr, MaxFuel)

\* (variant for comparison: an entry is decoded at the pc the entry before it
\* left, the listed pc is not assigned)
RunSegmentAtCurrent(vm, listed_pc) ==
  IF ~(vm.pc_ >= 0 /\ vm.pc_ < InstrCount(vm.exec_)) THEN Fail(vm, "throw")
  ELSE RunSegmentInstr(vm, GetInstruction(vm.exec_, vm.pc_))

\* pc_ = *it, the ICHECK_LT on it, the fetch and the switch
RunSegmentAt(vm, listed_pc) ==
  IF ~(listed_pc >= 0 /\ listed_pc < InstrCount(vm.exec_))
  THEN Fail([vm EXCEPT !.pc_ = listed_pc], "throw")
  ELSE RunSegmentInstr([vm EXCEPT !.pc_ = listed_pc], GetInstruction(vm.exec_, listed_pc))

RECURSIVE RunSegment(_, _, _)
\* the for loop of SegmentRunnerRun over the pcs of one segment, from entry i on
RunSegment(vm, pcs, i) ==
  IF i > Len(pcs) THEN Ok(vm, NullValue)
  ELSE Bind(RunSegmentAt(vm, pcs[i]),
            LAMBDA s : RunSegment(s.vm, pcs, i + 1))

\* (variant for comparison: the early return of the Ret case records the
\* segment as the previous one)
RunDoneRecording(r, segment_id, segment_length) ==
  IF r.st = "ret" THEN Ok([r.vm EXCEPT !.prev_segment_id = segment_id], IntVal(-1))
  ELSE Bind(r, LAMBDA s :
              Ok([s.vm EXCEPT !.prev_segment_id = segment_id], IntVal(segment_id)))

\* the end of SegmentRunnerRun, r the outcome of the for loop: the reset to -1
\* after the last segment is overwritten by the assignment that follows it
RunDone(r, segment_id, segment_length) ==
  IF r.st = "ret" THEN Ok(r.vm, IntVal(-1))
  ELSE Bind(r, LAMBDA s :
              Ok([[s.vm EXCEPT !.prev_segment_id =
                                  IF segment_id = segment_length - 1 THEN -1 ELSE @]
                    EXCEPT !.prev_segment_id = segment_id],
                 IntVal(segment_id)))

\* SegmentRunnerRun from the skip warning on.  A negative segment_id passed the
\* range check and indexes per_segment_pc_list_ out of bounds.
RunChecked(vm, segment_id) ==
  IF segment_id < 0 THEN Fail(vm, vm.ub)
  ELSE RunDone(RunSegment(vm, vm.per_segment_pc_list_[segment_id + 1], 1),
               segment_id, Len(vm.per_segment_pc_list_))

\* SegmentRunnerRun
SegmentRunnerRun(vm, segment_id) ==
  IF ~vm.are_segments_initialized_ THEN Ok(Emit(vm, "RunSegmentError", 0), IntVal(-1))
  ELSE IF segment_id > Len(vm.per_segment_pc_list_) - 1
  THEN Ok(Emit(vm, "InvalidSegmentIdError", segment_id), IntVal(-1))
  ELSE RunChecked(IF segment_id > vm.prev_segment_id + 1
                  THEN Emit(vm, "SegmentSkipWarning", segment_id) ELSE vm,
                  segment_id)

\* A PackedFunc that is the impl of a closure: the lambda GetClosureInternal
\* makes of function gf_idx, the lambda of BindLastArgs over func and
\* last_args, or SaveClosure's wrapper that drops the return value
FuncImpl(gf_idx) == [kind |-> "func", gf_idx |-> gf_idx]
\* VMClosure::BindLastArgs
BindLastArgs(func, last_args) == [kind |-> "bound", func |-> func, last_args |-> last_args]
DropReturn(func) == [kind |-> "noreturn", func |-> func]

\* (variant for comparison: the bound values are put before the call's arguments)
BoundCallArgsFirst(args, last_args) ==
  last_args \o args

\* the values BindLastArgs' lambda passes on: the call's arguments copied,
\* then last_args set behind them
BoundCallArgs(args, last_args) ==
  args \o last_args

\* the lambda of GetClosureInternal: args[0] is the context pointer, the
\* others are the inputs
CallFuncImpl(vm, gf_idx, args, fuel) ==
  IF Len(args) = 0 THEN Fail(vm, "throw")
  ELSE IF vm.exec_.func_table[gf_idx].kind = "kVMTIRFunc"
  THEN TIRClosure(vm, vm.exec_.func_table[gf_idx], Tail(args))
  ELSE InvokeBytecode(vm, gf_idx, Tail(args), fuel)

RECURSIVE CallPacked(_, _, _, _)
\* impl.CallPacked(args, rv)
CallPacked(vm, impl, args, fuel) ==
  IF impl.kind = "bound"
  THEN CallPacked(vm, impl.func, BoundCallArgs(args, impl.last_args), fuel)
  ELSE IF impl.kind = "noreturn"
  THEN Bind(CallPacked(vm, impl.func, args, fuel), LAMBDA r : Ok(r.vm, NullValue))
  ELSE CallFuncImpl(vm, impl.gf_idx, args, fuel)

\* SaveClosure once the closure of func_name is found
SaveClosureOf(vm, impl, save_name, include_return, args) ==
  Ok([vm EXCEPT !.saved_closures_ =
        Put(@, save_name, IF include_return THEN BindLastArgs(impl, args)
                          ELSE DropReturn(BindLastArgs(impl, args)))],
     NullValue)

\* SaveClosure (save_function): GetClosure looks among the saved closures
\* first, then in the function table, where only bytecode and hybrid
\* functions have a closure
SaveClosure(vm, func_name, save_name, include_return, args) ==
  IF Count(vm.saved_closures_, func_name) # 0
  THEN SaveClosureOf(vm, At(vm.saved_closures_, func_name), save_name, include_return, args)
  ELSE IF FuncMapFind(vm.exec_, func_name) = 0 THEN Fail(vm, "throw")
  ELSE IF vm.exec_.func_table[FuncMapFind(vm.exec_, func_name)].kind = "kPackedFunc"
  THEN Fail(vm, "throw")
  ELSE SaveClosureOf(vm, FuncImpl(FuncMapFind(vm.exec_, func_name)), save_name,
                     include_return, args)

\* invoke_closure on the closure GetClosure gives for func_name: a saved
\* closure, or the closure of a function of the executable (the monolithic
\* invocation); InvokeClosurePacked puts the context pointer before the
\* arguments
InvokeClosure(vm, func_name, args) ==
  IF Count(vm.saved_closures_, func_name) # 0
  THEN CallPacked(vm, At(vm.saved_closures_, func_name), <<VMContextPtr>> \o args, MaxFuel)
  ELSE IF FuncMapFind(vm.exec_, func_name) = 0 THEN Fail(vm, "throw")
  ELSE IF vm.exec_.func_table[FuncMapFind(vm.exec_, func_name)].kind = "kVMTIRFunc"
  THEN TIRClosure(vm, vm.exec_.func_table[FuncMapFind(vm.exec_, func_name)], args)
  ELSE InvokeBytecode(vm, FuncMapFind(vm.exec_, func_name), args, MaxFuel)

-----------------------------------------------------------------------------
(* Inputs of the driver.                                                   *)

RECURSIVE JoinLines(_)
\* a text made of lines, each terminated by a line feed
JoinLines(lines) ==
  IF lines = <<>> THEN <<>> ELSE Head(lines) \o <<NL>> \o JoinLines(Tail(lines))

\* "pc=<n>"
PcLine(n) == <<"p", "c", "=">> \o ToDigits(n)
\* "  @seg<tab>"
SegLineSpaced == <<" ", " ">> \o SegLine \o <<"\t">>
\* " pc =  1" followed by a carriage return
PcLineSpaced == <<" ", "p", "c", " ", "=", " ", " ", "1", "\r">>
\* "run": no pc
NoPcLine == <<"r", "u", "n">>
\* "pc=0 pc=1": two pcs
TwoPcLine == PcLine(0) \o <<" ">> \o PcLine(1)
\* "@seg x": not the delimiter
NotSegLine == SegLine \o <<" ", "x">>

\* scenario 5: two segments of one pc
TextTwoSegments == JoinLines(<<SegLine, PcLine(0), SegLine, PcLine(1), SegLine>>)
\* two @seg lines and nothing else
TextNoSegments == JoinLines(<<SegLine, SegLine>>)
\* one segment in the skeleton's own line format, last line unterminated
TextSkeletonStyle ==
  JoinLines(<<SegLine>>) \o SkeletonLine(0, "add") \o SkeletonLine(1, "mul") \o SegLine
\* blank lines, surrounding white space, an empty segment in the middle
TextSpaced == JoinLines(<<SegLineSpaced, <<>>, SegLine, <<" ", " ">>, PcLineSpaced, SegLine>>)
\* pcs 2 and 3 (main of the nested executable)
TextHighPcs == JoinLines(<<SegLine, PcLine(2), SegLine, PcLine(3), SegLine>>)
\* scenario 6: the leading @seg is missing
TextNoLeadingSeg == JoinLines(<<PcLine(0), SegLine>>)
\* the trailing @seg is missing
TextNoTrailingSeg == JoinLines(<<SegLine, PcLine(0)>>)
\* the first line only starts with @seg
TextBadLeadingSeg == JoinLines(<<NotSegLine, PcLine(0), SegLine>>)
\* a line without a pc after a good one
TextNoPc == JoinLines(<<SegLine, PcLine(0), NoPcLine, SegLine>>)
\* a line with two pcs after a good one
TextTwoPcs == JoinLines(<<SegLine, PcLine(1), TwoPcLine, SegLine>>)
\* not empty, but without any non-blank line
TextOnlyNewline == <<NL>>
TextOnlyBlanks == <<" ", NL, "\t", NL>>
TextEmpty == <<>>
\* a pc of ten digits, beyond what std::stoi converts to int
TextHugePc ==
  JoinLines(<<SegLine, PcLine(0), <<"p", "c", "=">> \o [i \in 1..10 |-> "9"], SegLine>>)

WellFormedTexts ==
  {TextTwoSegments, TextNoSegments, TextSkeletonStyle, TextSpaced, TextHighPcs}
MalformedTexts ==
  {TextNoLeadingSeg, TextNoTrailingSeg, TextBadLeadingSeg, TextNoPc, TextTwoPcs,
   TextOnlyNewline, TextOnlyBlanks, TextEmpty}
LoadTexts == WellFormedTexts \cup MalformedTexts \cup {TextHugePc}

InputValues == {IntVal(n) : n \in 0..MaxInput}
\* the argument lists of segment_runner.set_input
InputLists == {<<>>} \cup {<<a>> : a \in InputValues}
                \cup {<<a, b>> : a \in InputValues, b \in {IntVal(0)}}
SegmentIds == -1..MaxTable
\* what a build may do on undefined behaviour: die, or carry on with garbage
UBOutcomes == {"crash", "wild"}

-----------------------------------------------------------------------------
(* The state machine.                                                      *)

\* a runner on which no Load has left anything (vm.h, the initializers of the
\* segment members)
FreshRunner ==
  per_segment_pc_list_ = <<>> /\ ~are_segments_initialized_ /\ segments_frame_ = <<>>

\* what the driver knows of a call: the entry and its arguments, whether the
\* runner was fresh when it was made, how it ended, what it returned and
\* printed, and the id of the segment this VM's Run completed last (-1: none)
NoCall == [op |-> "none", id |-> 0, text |-> <<>>, func |-> "", args |-> <<>>,
           fresh |-> TRUE, st |-> "ok", ret |-> NullValue, log |-> <<>>,
           hooks |-> <<>>,
           completed |-> -1, seeded |-> {}, invoked |-> {}, allocated |-> 0]

\* a Run that went through its segment and returned its id
Completes(r, call) ==
  call.op = "Run" /\ call.id >= 0 /\ r.st = "ok" /\ r.ret = IntVal(call.id)
Idle == [at |-> "free", x |-> NullValue, via |-> "none", n |-> 0, k |-> 0]

\* the members of a VM after construction, vm_initialization and LoadExecutable
\* of exec (vm.h, the default member initializers)
FreshVM(exec, ub) ==
  [exec_ |-> exec, pc_ |-> 0, frames_ |-> <<>>, frame_free_list_ |-> <<>>,
   return_value_ |-> NullValue, per_segment_pc_list_ |-> <<>>,
   are_segments_initialized_ |-> FALSE, segments_frame_ |-> <<>>,
   prev_segment_id |-> -1, inputs_ |-> EmptyMap, outputs_ |-> EmptyMap,
   saved_closures_ |-> EmptyMap, instrument_ |-> NoInstrument,
   log |-> <<>>, hooks |-> <<>>, allocated |-> 0, ub |-> ub]

\* the VM after construction, vm_initialization and LoadExecutable of exec
Constructed(exec) ==
  /\ exec_ = exec
  /\ pc_ = 0
  /\ frames_ = <<>>
  /\ frame_free_list_ = <<>>
  /\ return_value_ = NullValue
  /\ per_segment_pc_list_ = <<>>
  /\ are_segments_initialized_ = FALSE
  /\ segments_frame_ = <<>>
  /\ prev_segment_id = -1
  /\ inputs_ = EmptyMap
  /\ outputs_ = EmptyMap
  /\ saved_closures_ = EmptyMap
  /\ instrument_ = NoInstrument
  /\ crashed = FALSE
  /\ last = NoCall
  /\ nops = 0

Init == drv = Idle /\ \E exec \in Executables : Constructed(exec)

\* the VM as the handlers see it, with an empty output and the outcome ub of
\* undefined behaviour
VM(ub) ==
  [exec_ |-> exec_, pc_ |-> pc_, frames_ |-> frames_,
   frame_free_list_ |-> frame_free_list_, return_value_ |-> return_value_,
   per_segment_pc_list_ |-> per_segment_pc_list_,
   are_segments_initialized_ |-> are_segments_initialized_,
   segments_frame_ |-> segments_frame_, prev_segment_id |-> prev_segment_id,
   inputs_ |-> inputs_, outputs_ |-> outputs_, saved_closures_ |-> saved_closures_,
   instrument_ |-> instrument_,
   log |-> <<>>, hooks |-> <<>>, allocated |-> last.allocated, ub |-> ub]

\* the handler's result r becomes the next state; call is what the driver called
Return(r, call) ==
  /\ exec_' = exec_
  /\ pc_' = r.vm.pc_
  /\ frames_' = r.vm.frames_
  /\ frame_free_list_' = r.vm.frame_free_list_
  /\ return_value_' = r.vm.return_value_
  /\ per_segment_pc_list_' = r.vm.per_segment_pc_list_
  /\ are_segments_initialized_' = r.vm.are_segments_initialized_
  /\ segments_frame_' = r.vm.segments_frame_
  /\ prev_segment_id' = r.vm.prev_segment_id
  /\ inputs_' = r.vm.inputs_
  /\ outputs_' = r.vm.outputs_
  /\ saved_closures_' = r.vm.saved_closures_
  /\ instrument_' = r.vm.instrument_
  /\ crashed' = (r.st \in {"crash", "diverge"})
  /\ nops' = nops + 1
  /\ last' = [call EXCEPT !.fresh = FreshRunner,
                           !.st = r.st, !.ret = r.ret, !.log = r.vm.log,
                           !.hooks = r.vm.hooks, !.allocated = r.vm.allocated,
                           !.completed = IF Completes(r, call) THEN call.id
                                         ELSE last.completed,
                           !.seeded = IF call.op = "SetInputFor" /\ r.st = "ok"
                                      THEN last.seeded \cup {call.func} ELSE last.seeded,
                           !.invoked = IF call.op = "InvokeStateful" /\ r.st = "ok"
                                       THEN last.invoked \cup {call.func} ELSE last.invoked]

\* segment_runner.load(text)
Load(text, ub) ==
  LET r == SegmentRunnerLoad(VM(ub), text)
  IN /\ ~crashed
     /\ Len(r.vm.per_segment_pc_list_) <= MaxTable
     /\ Return(r, [NoCall EXCEPT !.op = "Load", !.text = text])

\* segment_runner.run(segment_id)
Run(segment_id, ub) ==
  /\ ~crashed
  /\ Return(SegmentRunnerRun(VM(ub), segment_id), [NoCall EXCEPT !.op = "Run", !.id = segment_id])

\* segment_runner.set_input(args...)
SetInputPacked(args, ub) ==
  /\ ~crashed
  /\ Return(SegmentRunnerSetInputPacked(VM(ub), args),
            [NoCall EXCEPT !.op = "SetInputPacked", !.args = args])

\* SegmentRunnerSetInput(input, params)
SetInput(input, params, ub) ==
  /\ ~crashed
  /\ Return(SegmentRunnerSetInput(VM(ub), input, params),
            [NoCall EXCEPT !.op = "SetInput", !.args = <<input>> \o params])

\* segment_runner.get_output()
GetOutput(ub) ==
  /\ ~crashed
  /\ Return(SegmentRunnerGetOutput(VM(ub)), [NoCall EXCEPT !.op = "GetOutput"])

\* segment_runner.get_skeleton()
GetSkeleton(ub) ==
  /\ ~crashed
  /\ Return(SegmentRunnerGetSkeleton(VM(ub)), [NoCall EXCEPT !.op = "GetSkeleton"])

\* invoke_closure(main, x)
Invoke(args, ub) ==
  /\ ~crashed
  /\ Return(InvokeClosure(VM(ub), "main", args),
            [NoCall EXCEPT !.op = "Invoke", !.func = "main", !.args = args])

\* A second VM instance of the same process, made for one call: constructed,
\* loaded with the two-call executable and a table of two segments.  The static
\* prev_segment_id of SegmentRunnerRun is the one this VM uses.
OtherLoaded == SegmentRunnerLoad(FreshVM(ExecTwoCall, "crash"), TextTwoSegments).vm
OtherVM(ub) ==
  [OtherLoaded EXCEPT !.ub = ub, !.prev_segment_id = prev_segment_id, !.log = <<>>]

\* what a call on the other instance leaves in this process: the static, and
\* the end of the process when it died
ReturnOther(r, call) ==
  /\ prev_segment_id' = r.vm.prev_segment_id
  /\ crashed' = (r.st \in {"crash", "diverge"})
  /\ nops' = nops + 1
  /\ last' = [call EXCEPT !.fresh = FreshRunner,
                           !.st = r.st, !.ret = r.ret, !.log = r.vm.log,
                           !.hooks = r.vm.hooks, !.allocated = last.allocated,
                           !.completed = last.completed]
  /\ UNCHANGED <<exec_, pc_, frames_, frame_free_list_, return_value_,
                 per_segment_pc_list_, are_segments_initialized_, segments_frame_,
                 inputs_, outputs_, saved_closures_, instrument_>>

\* segment_runner.run(segment_id) on the other instance
RunOther(segment_id, ub) ==
  /\ ~crashed
  /\ ReturnOther(SegmentRunnerRun(OtherVM(ub), segment_id),
                 [NoCall EXCEPT !.op = "RunOther", !.id = segment_id])

\* the free driver makes up to MaxOps calls, in any order
Free == nops < MaxOps /\ UNCHANGED drv

CallLoad == Free /\ \E text \in LoadTexts, ub \in UBOutcomes : Load(text, ub)
CallRun == Free /\ \E segment_id \in SegmentIds, ub \in UBOutcomes : Run(segment_id, ub)
CallSetInputPacked ==
  Free /\ \E args \in InputLists, ub \in UBOutcomes : SetInputPacked(args, ub)
CallSetInput ==
  Free /\ \E input \in InputValues, ub \in UBOutcomes : SetInput(input, <<>>, ub)
CallGetOutput == Free /\ \E ub \in UBOutcomes : GetOutput(ub)
CallGetSkeleton == Free /\ \E ub \in UBOutcomes : GetSkeleton(ub)
CallInvoke == Free /\ \E x \in InputValues, ub \in UBOutcomes : Invoke(<<x>>, ub)
CallRunOther == Free /\ \E segment_id \in 0..1, ub \in UBOutcomes : RunOther(segment_id, ub)

Next ==
  \/ CallLoad
  \/ CallRun
  \/ CallSetInputPacked
  \/ CallSetInput
  \/ CallGetOutput
  \/ CallGetSkeleton
  \/ CallInvoke
  \/ CallRunOther

Spec == Init /\ [][Next]_vars

-----------------------------------------------------------------------------
(* The end-to-end driver of spec 8 (scenario 5): GetSkeleton, Load of the  *)
(* skeleton cut into segments, SetInput(x), Run(0) .. Run(n-1), GetOutput. *)

\* three calls in a row
ExecThreeCall ==
  [name |-> "threecall",
   func_table |-> <<FVM("main", 1, 4, 0), FPacked("add"), FPacked("mul")>>,
   instrs |-> <<ICall(1, 2, <<Reg(0), Imm(3)>>), ICall(2, 3, <<Reg(1), Imm(2)>>),
                ICall(3, 2, <<Reg(2), Reg(0)>>), IRet(3)>>]

E2EExecutables == Executables \cup {ExecThreeCall}

RECURSIVE Cuts(_)
\* every way to put @seg lines between the lines of a skeleton, each line
\* terminated: the runtime sequences a user may make of it
Cuts(lines) ==
  IF lines = <<>> THEN {<<>>}
  ELSE IF Len(lines) = 1 THEN {JoinLines(lines)}
  ELSE LET rest == Cuts(Tail(lines))
           head == JoinLines(<<Head(lines)>>)
       IN {head \o t : t \in rest} \cup {head \o JoinLines(<<SegLine>>) \o t : t \in rest}

RuntimeSequences(skeleton) ==
  {JoinLines(<<SegLine>>) \o t \o JoinLines(<<SegLine>>) : t \in Cuts(SplitLines(skeleton))}

E2EInit ==
  /\ drv = [Idle EXCEPT !.at = "start"]
  /\ \E exec \in E2EExecutables : Constructed(exec)

E2ESkeleton ==
  /\ drv.at = "start"
  /\ \E ub \in UBOutcomes : GetSkeleton(ub)
  /\ drv' = [drv EXCEPT !.at = IF last'.st = "ok" THEN "skeleton" ELSE "failed"]

E2ELoad ==
  /\ drv.at = "skeleton"
  /\ \E text \in RuntimeSequences(last.ret.s), ub \in UBOutcomes :
       SegmentRunnerLoad(VM(ub), text).st = "ok" /\ Load(text, ub)
  /\ drv' = [drv EXCEPT !.at = "loaded", !.n = last'.ret.v]

E2ESetInput ==
  /\ drv.at = "loaded"
  /\ \E x \in InputValues, ub \in UBOutcomes :
       /\ \/ SetInput(x, <<>>, ub)
          \/ SetInputPacked(<<x>>, ub)
       /\ drv' = [drv EXCEPT !.at = "seeded", !.x = x, !.via = last'.op]

E2ERun ==
  /\ drv.at = "seeded"
  /\ drv.k < drv.n
  /\ \E ub \in UBOutcomes : Run(drv.k, ub)
  /\ drv' = [drv EXCEPT !.k = drv.k + 1]

E2EGetOutput ==
  /\ drv.at = "seeded"
  /\ drv.k = drv.n
  /\ \E ub \in UBOutcomes : GetOutput(ub)
  /\ drv' = [drv EXCEPT !.at = "done"]

E2ENext == E2ESkeleton \/ E2ELoad \/ E2ESetInput \/ E2ERun \/ E2EGetOutput

SpecE2E == E2EInit /\ [][E2ENext]_vars

-----------------------------------------------------------------------------
(* The driver of the plain VM: invocations of the functions of executables *)
(* that exercise the special registers, the branches and the error paths.  *)

\* main(x) calls a native kernel with the void register as dst
ExecVoidNative ==
  [name |-> "voidnative",
   func_table |-> <<FVM("main", 1, 2, 0), FPacked("add")>>,
   instrs |-> <<ICall(kVoidRegister, 2, <<Reg(0), Imm(1)>>), IRet(0)>>]

\* main(x) calls a hybrid function with the void register as dst
ExecVoidTIR ==
  [name |-> "voidtir",
   func_table |-> <<FVM("main", 1, 2, 0), FTIR("ten", 1, 2)>>,
   instrs |-> <<ICall(kVoidRegister, 2, <<Reg(0)>>), IRet(0)>>]

\* main(x) calls the bytecode function helper with the void register as dst;
\* helper is pc 0, main starts at pc 1
ExecVoidNested ==
  [name |-> "voidnested",
   func_table |-> <<FVM("helper", 1, 1, 0), FVM("main", 1, 2, 1)>>,
   instrs |-> <<IRet(0), ICall(kVoidRegister, 1, <<Reg(0)>>), IRet(0)>>]

\* scenario 3: pc 0 If r0 false_offset=2; pc 1 Goto +2; pc 2 Ret r1; pc 3 Ret r2.
\* main(c) starts at pc 4, where r1 and r2 are given the constants 10 and 20
\* before control goes to pc 0
ExecConditional ==
  [name |-> "conditional",
   func_table |-> <<FVM("main", 1, 3, 4), FPacked("ten"), FPacked("twenty")>>,
   instrs |-> <<IIf(0, 2), IGoto(2), IRet(1), IRet(2),
                ICall(1, 2, <<>>), ICall(2, 3, <<>>), IGoto(-6)>>]

\* main(x) calls a kernel that raises an error
ExecFailing ==
  [name |-> "failing",
   func_table |-> <<FVM("main", 1, 2, 0), FPacked("fail")>>,
   instrs |-> <<ICall(1, 2, <<Reg(0)>>), IRet(1)>>]

\* main(x) has no Ret: after its Call pc runs past the last instruction
ExecRunsOff ==
  [name |-> "runsoff",
   func_table |-> <<FVM("main", 1, 2, 0), FPacked("add")>>,
   instrs |-> <<ICall(1, 2, <<Reg(0), Imm(1)>>)>>]

\* main(c): an If whose false_offset is 1, then Ret r0
ExecBadIf ==
  [name |-> "badif",
   func_table |-> <<FVM("main", 1, 1, 0)>>,
   instrs |-> <<IIf(0, 1), IRet(0)>>]

\* main(x) calls helper(x), which calls a kernel that raises an error
ExecDeepFailing ==
  [name |-> "deepfailing",
   func_table |-> <<FVM("helper", 1, 2, 0), FVM("main", 1, 2, 2), FPacked("fail")>>,
   instrs |-> <<ICall(1, 3, <<Reg(0)>>), IRet(1), ICall(1, 1, <<Reg(0)>>), IRet(1)>>]

VMExecutables ==
  {ExecVoidNative, ExecVoidTIR, ExecVoidNested, ExecNested, ExecConditional,
   ExecFailing, ExecRunsOff, ExecBadIf, ExecDeepFailing}

\* the names a caller may pass to invoke_closure
FuncNames == {"main", "helper"}

\* invoke_closure(func_name, args)
InvokeFunc(func_name, args, ub) ==
  /\ ~crashed
  /\ Return(InvokeClosure(VM(ub), func_name, args),
            [NoCall EXCEPT !.op = "Invoke", !.func = func_name, !.args = args])

VMInit == drv = Idle /\ \E exec \in VMExecutables : Constructed(exec)

VMInvoke ==
  Free /\ \E func_name \in FuncNames, args \in InputLists, ub \in UBOutcomes :
            InvokeFunc(func_name, args, ub)

VMNext == VMInvoke

SpecVM == VMInit /\ [][VMNext]_vars

-----------------------------------------------------------------------------
(* The driver of saved closures: save_function and invoke_closure.         *)

\* main(p, q) returns the arguments it received, as the kernel pack saw them
ExecPackTwo ==
  [name |-> "packtwo",
   func_table |-> <<FVM("main", 2, 3, 0), FPacked("pack")>>,
   instrs |-> <<ICall(2, 2, <<Reg(0), Reg(1)>>), IRet(2)>>]

\* main(p, q, r) returns the arguments it received
ExecPackThree ==
  [name |-> "packthree",
   func_table |-> <<FVM("main", 3, 4, 0), FPacked("pack")>>,
   instrs |-> <<ICall(3, 2, <<Reg(0), Reg(1), Reg(2)>>), IRet(3)>>]

ClosureExecutables == {ExecPackTwo, ExecPackThree}

\* the names a caller may save a closure under, and the names it may bind
SaveNames == {"saved", "saved2"}
ClosureNames == {"main"} \cup SaveNames

\* save_function(func_name, save_name, include_return, args...)
SaveFunction(func_name, save_name, include_return, args, ub) ==
  /\ ~crashed
  /\ Return(SaveClosure(VM(ub), func_name, save_name, include_return, args),
            [NoCall EXCEPT !.op = "SaveFunction", !.func = func_name, !.args = args])

\* the values a caller binds or passes to a closure
BoundLists == {<<>>} \cup {<<a>> : a \in InputValues}

ClosureInit == drv = Idle /\ \E exec \in ClosureExecutables : Constructed(exec)

ClosureSave ==
  Free /\ \E func_name \in ClosureNames, save_name \in SaveNames,
             include_return \in BOOLEAN, args \in BoundLists, ub \in UBOutcomes :
            SaveFunction(func_name, save_name, include_return, args, ub)

ClosureInvoke ==
  Free /\ \E func_name \in ClosureNames, args \in BoundLists, ub \in UBOutcomes :
            InvokeFunc(func_name, args, ub)

ClosureNext == ClosureSave \/ ClosureInvoke

SpecClosure == ClosureInit /\ [][ClosureNext]_vars

-----------------------------------------------------------------------------
(* The stateful calls: set_input, invoke_stateful, get_output.             *)

\* LOG(FATAL) with a message the caller can tell from the others
Raise(vm, what) == [vm |-> vm, st |-> "throw", ret |-> [tag |-> "error", v |-> what]]

\* SetInput, with_param_module false: the function is looked up, the argument
\* count is checked against num_args, then the converted arguments are stored
VMSetInput(vm, func_name, args) ==
  IF FuncMapFind(vm.exec_, func_name) = 0 THEN Raise(vm, "UnknownFunction")
  ELSE IF Len(args) # vm.exec_.func_table[FuncMapFind(vm.exec_, func_name)].num_args
  THEN Raise(vm, "ArgumentCount")
  ELSE Ok([vm EXCEPT !.inputs_ = Put(@, func_name, args)], NullValue)

\* (variant for comparison: the left side of the assignment is evaluated
\* first, which creates the entry before the invocation)
StoreOutputEntryFirst(vm, func_name, gf_idx) ==
  Bind(CallFuncImpl([vm EXCEPT !.outputs_ = Put(@, func_name, NullValue)], gf_idx,
                    <<VMContextPtr>> \o At(vm.inputs_, func_name), MaxFuel),
       LAMBDA r : Ok([r.vm EXCEPT !.outputs_ = Put(@, func_name, r.ret)], NullValue))

\* outputs_[func_name] = InvokeClosureInternal(func_pool_[gf_idx], inputs_[func_name]):
\* the right side is evaluated first, the entry is made when it has returned
StoreOutput(vm, func_name, gf_idx) ==
  Bind(CallFuncImpl(vm, gf_idx, <<VMContextPtr>> \o At(vm.inputs_, func_name), MaxFuel),
       LAMBDA r : Ok([r.vm EXCEPT !.outputs_ = Put(@, func_name, r.ret)], NullValue))

\* _InvokeClosureStateful
InvokeClosureStateful(vm, func_name) ==
  IF FuncMapFind(vm.exec_, func_name) = 0 THEN Raise(vm, "UnknownFunction")
  ELSE IF Count(vm.inputs_, func_name) = 0 THEN Raise(vm, "NoInputsSet")
  ELSE StoreOutput(vm, func_name, FuncMapFind(vm.exec_, func_name))

RECURSIVE IndexIntoNestedObject(_, _, _)
\* IndexIntoNestedObject: the indices lead through nested arrays
IndexIntoNestedObject(vm, obj, indices) ==
  IF indices = <<>> THEN Ok(vm, obj)
  ELSE IF obj.tag # "tuple" THEN Raise(vm, "NotAnArray")
  ELSE IF Head(indices) >= Len(obj.items) THEN Raise(vm, "IndexOutOfBounds")
  ELSE IndexIntoNestedObject(vm, obj.items[Head(indices) + 1], Tail(indices))

\* LookupVMOutput
LookupVMOutput(vm, func_name) ==
  IF Count(vm.outputs_, func_name) = 0 THEN Raise(vm, "NoOutputSaved")
  ELSE Ok(vm, At(vm.outputs_, func_name))

\* _GetOutput
VMGetOutput(vm, func_name, indices) ==
  Bind(LookupVMOutput(vm, func_name), LAMBDA out :
  Bind(IndexIntoNestedObject(vm, out.ret, indices), LAMBDA obj :
    IF obj.ret.tag = "tuple" THEN Raise(vm, "TupleOutput") ELSE Ok(vm, obj.ret)))

\* _GetOutputArity
VMGetOutputArity(vm, func_name, indices) ==
  Bind(LookupVMOutput(vm, func_name), LAMBDA out :
  Bind(IndexIntoNestedObject(vm, out.ret, indices), LAMBDA obj :
    IF obj.ret.tag = "tuple" THEN Ok(vm, IntVal(Len(obj.ret.items)))
    ELSE Ok(vm, IntVal(-1))))

StatefulExecutables == {ExecNested, ExecPackTwo, ExecFailing}

\* the names the caller passes: two functions and a name no executable has
StatefulNames == {"main", "helper", "nosuch"}
\* the indices of get_output and get_output_arity
IndexLists == {<<>>, <<0>>, <<2>>, <<0, 0>>}

SetInputFor(func_name, args, ub) ==
  /\ ~crashed
  /\ Return(VMSetInput(VM(ub), func_name, args),
            [NoCall EXCEPT !.op = "SetInputFor", !.func = func_name, !.args = args])

InvokeStateful(func_name, ub) ==
  /\ ~crashed
  /\ Return(InvokeClosureStateful(VM(ub), func_name),
            [NoCall EXCEPT !.op = "InvokeStateful", !.func = func_name])

GetOutputOf(func_name, indices, ub) ==
  /\ ~crashed
  /\ Return(VMGetOutput(VM(ub), func_name, indices),
            [NoCall EXCEPT !.op = "GetOutputOf", !.func = func_name, !.args = indices])

GetOutputArityOf(func_name, indices, ub) ==
  /\ ~crashed
  /\ Return(VMGetOutputArity(VM(ub), func_name, indices),
            [NoCall EXCEPT !.op = "GetOutputArityOf", !.func = func_name, !.args = indices])

StatefulInit == drv = Idle /\ \E exec \in StatefulExecutables : Constructed(exec)

StatefulSetInput ==
  Free /\ \E func_name \in StatefulNames, args \in InputLists, ub \in UBOutcomes :
            SetInputFor(func_name, args, ub)
StatefulInvoke ==
  Free /\ \E func_name \in StatefulNames, ub \in UBOutcomes : InvokeStateful(func_name, ub)
StatefulGetOutput ==
  Free /\ \E func_name \in StatefulNames, indices \in IndexLists, ub \in UBOutcomes :
            GetOutputOf(func_name, indices, ub)
StatefulGetOutputArity ==
  Free /\ \E func_name \in StatefulNames, indices \in IndexLists, ub \in UBOutcomes :
            GetOutputArityOf(func_name, indices, ub)

StatefulNext ==
  StatefulSetInput \/ StatefulInvoke \/ StatefulGetOutput \/ StatefulGetOutputArity

SpecStateful == StatefulInit /\ [][StatefulNext]_vars

-----------------------------------------------------------------------------
(* The driver of the instrumented VM: set_instrument and invoke_closure.   *)

\* main(x) = pack(x): returns the arguments the kernel received
ExecPackOne ==
  [name |-> "packone",
   func_table |-> <<FVM("main", 1, 2, 0), FPacked("pack")>>,
   instrs |-> <<ICall(1, 2, <<Reg(0)>>), IRet(1)>>]

\* main(x): r0 = add(r0, 1); Ret r0.  The Call's dst holds a value before it
ExecIncrement ==
  [name |-> "increment",
   func_table |-> <<FVM("main", 1, 1, 0), FPacked("add")>>,
   instrs |-> <<ICall(0, 2, <<Reg(0), Imm(1)>>), IRet(0)>>]

InstrExecutables == {ExecNested, ExecPackOne, ExecIncrement, ExecFailing}

\* the instruments a caller installs, named by how they reply
Instruments == {"noop", "skip", "skipadd", "text", "two"}

\* the arguments of the invocations: an integer or a data type
InstrInputs ==
  {<<a>> : a \in InputValues \cup {DTypeVal("float", 32), DTypeVal("int", 8)}}

\* set_instrument(instrument), the argument being a PackedFunc
SetInstrument(instrument, ub) ==
  /\ ~crashed
  /\ Return(Ok([VM(ub) EXCEPT !.instrument_ = instrument], NullValue),
            [NoCall EXCEPT !.op = "SetInstrument", !.func = instrument])

InstrInit == drv = Idle /\ \E exec \in InstrExecutables : Constructed(exec)

InstrSetInstrument ==
  Free /\ \E instrument \in Instruments, ub \in UBOutcomes : SetInstrument(instrument, ub)

InstrInvoke ==
  Free /\ \E func_name \in FuncNames, args \in InstrInputs, ub \in UBOutcomes :
            InvokeFunc(func_name, args, ub)

InstrNext == InstrSetInstrument \/ InstrInvoke

SpecInstr == InstrInit /\ [][InstrNext]_vars

-----------------------------------------------------------------------------
(* Properties.                                                             *)

\* a Load that returned a segment count
LoadSucceeded(call) == call.op = "Load" /\ call.st = "ok" /\ call.ret.v >= 0

\* the entry of main in the function table of an executable that has one
MainFunc(exec) == exec.func_table[FuncMapFind(exec, "main")]

\* the pcs a skeleton text lists, line by line
PcsOfSkeleton(skeleton) ==
  LET lines == SplitLines(skeleton)
  IN [i \in 1..Len(lines) |-> StoI(RegexMatches(lines[i], 1)[1], 0)]

\* the monolithic invocation of main on a VM that has done nothing else
Monolithic(exec, args) == InvokeClosure(FreshVM(exec, "crash"), "main", args)

\* the pcs of the Calls RunLoop executes in main's own frame when main is
\* invoked with null arguments
NominalCallPcs(exec) ==
  LET run == Monolithic(exec, [i \in 1..MainFunc(exec).num_args |-> NullValue])
      calls == SelectSeq(run.vm.log, LAMBDA e : e.msg = "call" /\ e.d = 1)
  IN [i \in 1..Len(calls) |-> calls[i].n]

\* C1: the end-to-end run GetSkeleton, Load of the skeleton with @seg lines
\* added, SetInput(x), Run(0) .. Run(n-1), GetOutput returns what the
\* monolithic invocation of main on x returns.
C1_SegmentedEqualsMonolithic ==
  (drv.at = "done" /\ drv.via = "SetInput")
    => (last.st = "ok" /\ last.ret = Monolithic(exec_, <<drv.x>>).ret)

\* C2: the pcs GetSkeleton lists are, in order, the pcs of the Calls a nominal
\* RunLoop executes on main.
C2_SkeletonConformance ==
  (last.op = "GetSkeleton" /\ last.st = "ok")
    => PcsOfSkeleton(last.ret.s) = NominalCallPcs(exec_)

\* C3: a Load directly after a successful Load of the same text leaves the
\* segment table, the returned count, pc, the persistent frame and the
\* initialized flag as the first Load left them.
C3_IdempotentLoad ==
  [][(LoadSucceeded(last) /\ nops' = nops + 1 /\ last'.op = "Load" /\ last'.text = last.text)
       => (/\ per_segment_pc_list_' = per_segment_pc_list_
           /\ last'.st = "ok" /\ last'.ret = last.ret
           /\ pc_' = pc_
           /\ segments_frame_' = segments_frame_
           /\ are_segments_initialized_')]_vars

\* the texts that break the grammar of a runtime sequence
GrammarViolations ==
  {TextNoLeadingSeg, TextNoTrailingSeg, TextBadLeadingSeg, TextNoPc, TextTwoPcs}

\* C4: in every runner state a Load of a text that breaks the grammar returns
\* -1 and leaves the runner uninitialized, so that Run(i) returns -1 for every i.
C4_MalformedLoadUninitializes ==
  (last.op = "Load" /\ last.text \in GrammarViolations)
    => (/\ last.st = "ok" /\ last.ret = IntVal(-1)
        /\ ~are_segments_initialized_
        /\ \A i \in SegmentIds : SegmentRunnerRun(VM("crash"), i).ret = IntVal(-1))

\* the positions of the @seg lines
SegStarts(lines) == {i \in 1..Len(lines) : lines[i] = SegLine}
\* the k-th of them
NthStart(lines, k) ==
  CHOOSE i \in SegStarts(lines) : Cardinality({j \in SegStarts(lines) : j <= i}) = k
\* the last line of the k-th segment
SegmentEnd(lines, k) ==
  IF k = Cardinality(SegStarts(lines)) THEN Len(lines) ELSE NthStart(lines, k + 1) - 1
\* the pcs captured on the lines a + 1 .. b
PcsBetween(lines, a, b) ==
  [j \in 1..(b - a) |-> StoI(RegexMatches(lines[a + j], 1)[1], 0)]
\* the table the text describes: one segment per @seg line, holding the pcs of
\* the lines up to the next @seg line, the last one dropped when it is empty
ExpectedTable(lines) ==
  LET n == Cardinality(SegStarts(lines))
      full == [k \in 1..n |-> PcsBetween(lines, NthStart(lines, k), SegmentEnd(lines, k))]
  IN IF full[n] = <<>> THEN SubSeq(full, 1, n - 1) ELSE full

\* C5: a Load of a well-formed text on a fresh runner leaves the table the text
\* describes, segments and pcs in the order of the text, marks the runner
\* initialized and, main being there, returns the number of segments.
C5_LoadBuildsTable ==
  (last.op = "Load" /\ last.fresh /\ last.text \in WellFormedTexts)
    => (/\ per_segment_pc_list_ = ExpectedTable(TrimmedLines(SplitLines(last.text)))
        /\ are_segments_initialized_
        /\ FuncMapFind(exec_, "main") # 0
             => (last.st = "ok" /\ last.ret = IntVal(Len(per_segment_pc_list_))))

\* a Load on a fresh runner, of the text with blank lines and an empty segment
\* in the middle, has returned 2 and left the segments <<>> and <<1>>
C5_Witness ==
  /\ last.op = "Load" /\ last.fresh /\ last.text = TextSpaced
  /\ last.ret = IntVal(2)
  /\ per_segment_pc_list_ = << <<>>, <<1>> >>

\* C6: a Load of two @seg lines and nothing else, on an executable with main,
\* returns 0 and leaves a table of 0 segments.
C6_TwoDelimitersNoSegments ==
  (last.op = "Load" /\ last.text = TextNoSegments /\ FuncMapFind(exec_, "main") # 0)
    => (last.st = "ok" /\ last.ret = IntVal(0) /\ per_segment_pc_list_ = <<>>)

\* the texts whose first or last non-blank line is not @seg, those without any
\* non-blank line included
BadEnds ==
  {TextNoLeadingSeg, TextNoTrailingSeg, TextBadLeadingSeg, TextOnlyNewline, TextOnlyBlanks}

\* C7: a Load of a text whose first or last non-blank line is not exactly @seg,
\* or that has no non-blank line, returns -1.
C7_BadEndsReturnMinusOne ==
  (last.op = "Load" /\ last.text \in BadEnds) => (last.st = "ok" /\ last.ret = IntVal(-1))

\* C8: after a successful Load the persistent frame has main's
\* register_file_size registers, all of them null, and pc is main's start
\* instruction.
C8_FreshFrameAfterLoad ==
  LoadSucceeded(last)
    => (/\ Len(segments_frame_) = 1
        /\ Len(segments_frame_[1].register_file) = MainFunc(exec_).register_file_size
        /\ \A i \in 1..Len(segments_frame_[1].register_file) :
              segments_frame_[1].register_file[i] = NullValue
        /\ pc_ = MainFunc(exec_).start_instr)

\* the third call is a successful Load on a runner that is loaded already (the
\* table holds the segments of two texts), of an executable whose main does not
\* start at pc 0
C8_Witness ==
  /\ LoadSucceeded(last) /\ nops = 3
  /\ exec_ = ExecNested /\ pc_ = 2
  /\ Len(per_segment_pc_list_) = 3

\* C9: a successful Load puts the previous-segment id back to none: a Run(1)
\* issued directly after it emits SegmentSkipWarning.
C9_LoadResetsPrevSegment ==
  LoadSucceeded(last)
    => (/\ prev_segment_id = -1
        /\ Len(per_segment_pc_list_) >= 2
             => \E i \in 1..Len(SegmentRunnerRun(VM("crash"), 1).vm.log) :
                   SegmentRunnerRun(VM("crash"), 1).vm.log[i].msg = "SegmentSkipWarning")

\* C10: as long as no Load has succeeded, Run, SetInput (of at least one input)
\* and GetOutput return -1 and leave pc, the frame stack and the persistent
\* frame alone.
C10_UninitializedOpsReturnMinusOne ==
  [][(/\ ~are_segments_initialized_ /\ nops' = nops + 1
      /\ last'.op \in {"Run", "SetInput", "SetInputPacked", "GetOutput"}
      /\ last'.op = "SetInputPacked" => Len(last'.args) >= 1)
       => (/\ last'.st = "ok" /\ last'.ret = IntVal(-1)
           /\ pc_' = pc_ /\ frames_' = frames_ /\ frame_free_list_' = frame_free_list_
           /\ segments_frame_' = segments_frame_)]_vars

\* whether a call printed the message msg
HasMsg(call, msg) == \E i \in 1..Len(call.log) : call.log[i].msg = msg

\* the segment ids of the table
InRange(segment_id) == segment_id \in 0..(Len(per_segment_pc_list_) - 1)

\* C11: on an initialized runner a Run of a segment id outside 0..n-1, below 0
\* included, returns -1, executes no instruction and leaves pc, the persistent
\* frame and the previous-segment id as they were.
C11_RunOutOfRange ==
  [][(/\ nops' = nops + 1 /\ last'.op = "Run"
      /\ are_segments_initialized_ /\ ~InRange(last'.id))
       => (/\ last'.st = "ok" /\ last'.ret = IntVal(-1)
           /\ ~HasMsg(last', "call")
           /\ pc_' = pc_ /\ segments_frame_' = segments_frame_
           /\ prev_segment_id' = prev_segment_id)]_vars

\* C12: a Run of an in-range segment id on an initialized runner prints the
\* skip warning exactly when the id is greater than one plus the id of the
\* segment this runner's Run completed last (-1 when it completed none), and
\* when every pc of the segment is a Call it returns the id.
C12_SkipWarningExactlyOnSkip ==
  [][(/\ nops' = nops + 1 /\ last'.op = "Run"
      /\ are_segments_initialized_ /\ InRange(last'.id))
       => (/\ HasMsg(last', "SegmentSkipWarning") <=> (last'.id > last.completed + 1)
           /\ (last'.st = "ok" /\ ~HasMsg(last', "RunSegmentError"))
                => last'.ret = IntVal(last'.id))]_vars

\* the last call was a Run that went through the last segment of the table
RanLastSegment ==
  /\ last.op = "Run" /\ last.st = "ok" /\ last.id >= 0
  /\ last.ret = IntVal(last.id)
  /\ last.id = Len(per_segment_pc_list_) - 1

\* C13: when Run has completed the last segment of the table the
\* previous-segment id is none again: the next Run(0) prints no skip warning
\* and a next Run(k) with k >= 1 prints it.
C13_LastSegmentResetsPrev ==
  RanLastSegment
    => (/\ prev_segment_id = -1
        /\ \A k \in 0..(Len(per_segment_pc_list_) - 1) :
             HasMsg([log |-> SegmentRunnerRun(VM("crash"), k).vm.log],
                    "SegmentSkipWarning") <=> (k >= 1))

\* whether the instruction at pc exists and is a Ret
IsRetAt(pc) ==
  pc >= 0 /\ pc < InstrCount(exec_) /\ GetInstruction(exec_, pc).op = "Ret"

\* whether the walk of segment segment_id comes to a Ret: a listed pc holds a
\* Ret and every pc listed before it holds an instruction
MeetsRet(segment_id) ==
  /\ are_segments_initialized_ /\ InRange(segment_id)
  /\ \E j \in 1..Len(per_segment_pc_list_[segment_id + 1]) :
        /\ IsRetAt(per_segment_pc_list_[segment_id + 1][j])
        /\ \A m \in 1..(j - 1) :
              /\ per_segment_pc_list_[segment_id + 1][m] >= 0
              /\ per_segment_pc_list_[segment_id + 1][m] < InstrCount(exec_)

\* C14: a Run whose walk of the segment comes to a Ret reports the error and
\* returns -1, never the segment id, and leaves the previous-segment id as it
\* was.
C14_RetInSegmentFails ==
  [][(nops' = nops + 1 /\ last'.op = "Run" /\ MeetsRet(last'.id))
       => (/\ last'.st = "ok" /\ last'.ret = IntVal(-1)
           /\ HasMsg(last', "RunSegmentError")
           /\ prev_segment_id' = prev_segment_id)]_vars

\* a Run of segment 1 came to the Ret of main after an earlier Run completed
\* segment 0: the previous-segment id is still 0
C14_Witness ==
  /\ last.op = "Run" /\ last.id = 1 /\ MeetsRet(1)
  /\ last.ret = IntVal(-1) /\ HasMsg(last, "RunSegmentError")
  /\ last.completed = 0 /\ prev_segment_id = 0

\* C15: a Run that returns -1 has executed no pc of its segment: the registers
\* of the persistent frame and pc are as they were before the call.
C15_RunIsAtomic ==
  [][(/\ nops' = nops + 1 /\ last'.op = "Run"
      /\ last'.st = "ok" /\ last'.ret = IntVal(-1))
       => (/\ pc_' = pc_
           /\ segments_frame_' = segments_frame_
           /\ ~HasMsg(last', "call"))]_vars

\* the registers of a persistent frame that exists
SegRegisters(frame) == frame[1].register_file

\* C16: segment_runner.set_input of K >= 1 inputs writes input j to register j
\* of an existing persistent frame, the first input to register 0, and leaves
\* the other registers and pc alone; without a persistent frame it returns -1
\* and writes nothing.
C16_SetInputWritesRegisters ==
  [][(/\ nops' = nops + 1 /\ last'.op = "SetInputPacked"
      /\ Len(last'.args) >= 1)
       => IF segments_frame_ = <<>>
          THEN /\ last'.st = "ok" /\ last'.ret = IntVal(-1)
               /\ segments_frame_' = <<>> /\ pc_' = pc_
          ELSE Len(last'.args) <= Len(SegRegisters(segments_frame_))
                 => /\ last'.st = "ok" /\ pc_' = pc_
                    /\ segments_frame_' # <<>>
                    /\ \A j \in 1..Len(SegRegisters(segments_frame_)) :
                          SegRegisters(segments_frame_')[j] =
                            IF j <= Len(last'.args) THEN last'.args[j]
                            ELSE SegRegisters(segments_frame_)[j]]_vars

\* the source register of the Ret at pc_
RetSource == GetInstruction(exec_, pc_).result

\* whether pc_ is at a Ret whose source is a register of the persistent frame
AtRetOfFrame ==
  /\ IsRetAt(pc_) /\ segments_frame_ # <<>>
  /\ RetSource >= 0 /\ RetSource < Len(SegRegisters(segments_frame_))

\* C17: with pc at a Ret of source register s, GetOutput returns the value that
\* register s of the persistent frame holds.
C17_GetOutputReadsRetSource ==
  [][(nops' = nops + 1 /\ last'.op = "GetOutput" /\ AtRetOfFrame)
       => (/\ last'.st = "ok"
           /\ last'.ret = SegRegisters(segments_frame_)[RetSource + 1])]_vars

\* a GetOutput at a Ret returned a value that is no input: a Call of a segment
\* wrote it
C17_Witness ==
  /\ last.op = "GetOutput" /\ last.st = "ok" /\ AtRetOfFrame
  /\ last.ret = SegRegisters(segments_frame_)[RetSource + 1]
  /\ last.ret # NullValue /\ last.ret \notin InputValues

\* C18: a GetOutput with pc at a Ret leaves pc, the persistent frame, the
\* segment table, the initialized flag, the previous-segment id and the active
\* frame stack as they were, and a GetOutput that follows another returns the
\* same value.
C18_GetOutputChangesNothing ==
  [][(nops' = nops + 1 /\ last'.op = "GetOutput" /\ AtRetOfFrame)
       => (/\ pc_' = pc_
           /\ segments_frame_' = segments_frame_
           /\ per_segment_pc_list_' = per_segment_pc_list_
           /\ are_segments_initialized_' = are_segments_initialized_
           /\ prev_segment_id' = prev_segment_id
           /\ frames_' = frames_
           /\ (last.op = "GetOutput" /\ last.st = "ok") => last'.ret = last.ret)]_vars

\* a GetOutput after a Load and a Run that completed segment 0: the registers
\* written by the Run are in the frame still
C18_Witness ==
  /\ last.op = "GetOutput" /\ last.st = "ok" /\ AtRetOfFrame /\ nops = 3
  /\ are_segments_initialized_ /\ prev_segment_id = 0 /\ last.completed = 0
  /\ \E j \in 1..Len(SegRegisters(segments_frame_)) :
        SegRegisters(segments_frame_)[j] # NullValue

\* whether pc_ is at an instruction that is no Ret, with a persistent frame
AtNoRetOfFrame ==
  /\ pc_ >= 0 /\ pc_ < InstrCount(exec_) /\ ~IsRetAt(pc_)
  /\ segments_frame_ # <<>>

\* C19: a GetOutput with pc at an instruction that is no Ret prints the notice,
\* returns the value return_value_ held before the call and leaves
\* return_value_ as it was.
C19_GetOutputBeforeRet ==
  [][(nops' = nops + 1 /\ last'.op = "GetOutput" /\ AtNoRetOfFrame)
       => (/\ last'.st = "ok" /\ HasMsg(last', "OutputError")
           /\ last'.ret = return_value_
           /\ return_value_' = return_value_)]_vars

\* C20: a GetSkeleton or a monolithic invocation, with the frames they push and
\* pop, leaves the persistent frame as it was: what a Run wrote to its
\* registers is there for the next Run or GetOutput.
C20_PersistentFrameSurvives ==
  [][(nops' = nops + 1 /\ last'.op \in {"GetSkeleton", "Invoke"})
       => segments_frame_' = segments_frame_]_vars

\* a monolithic invocation ran to its end after a Run had completed segment 0
\* and written a register of the persistent frame
C20_Witness ==
  /\ last.op = "Invoke" /\ last.st = "ok" /\ last.ret # NullValue
  /\ are_segments_initialized_ /\ last.completed = 0 /\ nops = 3
  /\ segments_frame_ # <<>>
  /\ \E j \in 1..Len(SegRegisters(segments_frame_)) :
        SegRegisters(segments_frame_)[j] # NullValue

\* whether a Run of segment_id on this VM, made now, prints the skip warning
WouldWarn(segment_id) ==
  HasMsg([log |-> SegmentRunnerRun(VM("crash"), segment_id).vm.log],
         "SegmentSkipWarning")

\* C21: a Run on another VM instance does not change whether a later Run(i) on
\* this VM prints the skip warning: the previous-segment id of a runner follows
\* from the Loads and Runs of its own VM only.
C21_RunnerStateIsPerInstance ==
  [][(nops' = nops + 1 /\ last'.op = "RunOther")
       => (/\ prev_segment_id' = prev_segment_id
           /\ are_segments_initialized_
                => \A i \in 0..(Len(per_segment_pc_list_) - 1) :
                      WouldWarn(i)' <=> WouldWarn(i))]_vars

\* C22: a GetSkeleton leaves pc, the depth of the active frame stack, the
\* persistent frame, the segment table, the previous-segment id and
\* return_value_ as they were and executes no Call; a GetSkeleton that follows
\* another returns the same text.
C22_GetSkeletonIsPure ==
  [][(nops' = nops + 1 /\ last'.op = "GetSkeleton")
       => (/\ pc_' = pc_
           /\ Len(frames_') = Len(frames_)
           /\ segments_frame_' = segments_frame_
           /\ per_segment_pc_list_' = per_segment_pc_list_
           /\ prev_segment_id' = prev_segment_id
           /\ return_value_' = return_value_
           /\ ~HasMsg(last', "call")
           /\ (last.op = "GetSkeleton" /\ last.st = "ok")
                => (last'.st = "ok" /\ last'.ret = last.ret))]_vars

\* a GetSkeleton of main, made after a Load and a Run that completed segment 0
\* and wrote a register of the persistent frame, returned a text that lists
\* Calls; the frame it pushed is on the free list
C22_Witness ==
  /\ last.op = "GetSkeleton" /\ last.st = "ok" /\ nops = 3
  /\ last.ret.tag = "str" /\ last.ret # StrVal(<<>>)
  /\ last.completed = 0 /\ prev_segment_id = 0
  /\ frame_free_list_ # <<>> /\ frames_ = <<>>
  /\ \E j \in 1..Len(SegRegisters(segments_frame_)) :
        SegRegisters(segments_frame_)[j] # NullValue

\* whether the first instruction of main is a Call with the void register as dst
MainStartsWithVoidCall ==
  /\ FuncMapFind(exec_, "main") # 0
  /\ GetInstruction(exec_, MainFunc(exec_).start_instr).op = "Call"
  /\ GetInstruction(exec_, MainFunc(exec_).start_instr).dst = kVoidRegister

\* the VM inside an invocation of main(args), before main's first instruction
EnteredMain(args) ==
  [WriteArgs(PushFrame(VM("crash"), pc_, MainFunc(exec_)), Len(frames_) + 1, args, 1).vm
     EXCEPT !.pc_ = MainFunc(exec_).start_instr]

\* the registers of the frame on top of the stack
TopRegisters(vm) == vm.frames_[Len(vm.frames_)].register_file

\* what RunInstrCall makes of main's first instruction
FirstCallOfMain(args) ==
  RunInstrCall(EnteredMain(args), Len(frames_) + 1,
               GetInstruction(exec_, MainFunc(exec_).start_instr), MaxFuel)

\* C23: a Call with the void register as dst succeeds whatever the kind of the
\* callee (native, hybrid, bytecode), changes no register of the caller's frame
\* and advances pc by 1; an invocation of a main that makes such a Call and
\* returns its input ends normally with that input.
C23_VoidDstCallSucceeds ==
  (/\ last.op = "Invoke" /\ last.func = "main" /\ Len(last.args) = 1
   /\ MainStartsWithVoidCall)
    => (/\ last.st = "ok" /\ last.ret = last.args[1]
        /\ FirstCallOfMain(last.args).st = "ok"
        /\ FirstCallOfMain(last.args).vm.pc_ = MainFunc(exec_).start_instr + 1
        /\ TopRegisters(FirstCallOfMain(last.args).vm) = TopRegisters(EnteredMain(last.args)))

\* the last call invoked main(c) of the conditional scenario
InvokedConditional(c) ==
  /\ last.op = "Invoke" /\ last.func = "main" /\ exec_ = ExecConditional
  /\ last.args = <<IntVal(c)>>

\* C24: in the conditional scenario main(1) returns 10 and main(0) returns 20.
C24_ConditionalScenario ==
  /\ InvokedConditional(1) => (last.st = "ok" /\ last.ret = IntVal(10))
  /\ InvokedConditional(0) => (last.st = "ok" /\ last.ret = IntVal(20))

\* C24 as the code has it: main(1) falls through the If to the Goto and returns
\* r2, which is 20; main(0) goes to pc 2 and returns r1, which is 10.
C24_ConditionalAsCoded ==
  /\ InvokedConditional(1) => (last.st = "ok" /\ last.ret = IntVal(20))
  /\ InvokedConditional(0) => (last.st = "ok" /\ last.ret = IntVal(10))

\* main(1) of the conditional scenario was invoked and returned 20
C24_Witness ==
  InvokedConditional(1) /\ last.st = "ok" /\ last.ret = IntVal(20)

\* the invocation of func_name(args) on a VM that has done nothing else
FirstInvocation(func_name, args) == InvokeClosure(FreshVM(exec_, "crash"), func_name, args)

\* C25: an invocation of f(X) ends as the first invocation of f(X) on this VM
\* does, with the same value, whatever Loads, Runs, GetSkeletons and invocations
\* the VM has served before it.
C25_InvocationIsDeterministic ==
  last.op = "Invoke"
    => (/\ last.st = FirstInvocation(last.func, last.args).st
        /\ last.ret = FirstInvocation(last.func, last.args).ret)

\* the saved closure the last call invoked is bind(bind(f, a), b)
InvokedTwiceBound ==
  /\ last.op = "Invoke"
  /\ last.st \in {"ok", "throw"}
  /\ Count(saved_closures_, last.func) # 0
  /\ At(saved_closures_, last.func).kind = "bound"
  /\ At(saved_closures_, last.func).func.kind = "bound"

\* what invoking bind(f, last_args) with the arguments of the last call gives,
\* f being the innermost callable of the closure the last call invoked
OnceBound(last_args) ==
  CallPacked(VM("crash"),
             BindLastArgs(At(saved_closures_, last.func).func.func, last_args),
             <<VMContextPtr>> \o last.args, MaxFuel)

\* C26 (as stated): invoking bind(bind(f, a), b) with x gives f the arguments
\* that invoking bind(f, a ++ b) with x gives it: a function that returns the
\* arguments it received returns the same from both.
C26_BindAssociative ==
  InvokedTwiceBound =>
    /\ last.st = OnceBound(At(saved_closures_, last.func).func.last_args
                           \o At(saved_closures_, last.func).last_args).st
    /\ last.ret = OnceBound(At(saved_closures_, last.func).func.last_args
                            \o At(saved_closures_, last.func).last_args).ret

\* C26 (amended): invoking bind(bind(f, a), b) with x gives f the arguments
\* that invoking bind(f, b ++ a) with x gives it, the values bound last coming
\* first behind the call's arguments.
C26_BindComposesOutward ==
  InvokedTwiceBound =>
    /\ last.st = OnceBound(At(saved_closures_, last.func).last_args
                           \o At(saved_closures_, last.func).func.last_args).st
    /\ last.ret = OnceBound(At(saved_closures_, last.func).last_args
                            \o At(saved_closures_, last.func).func.last_args).ret

\* a twice-bound closure with two different bound values was invoked and the
\* innermost function returned the arguments it received
C26_Witness ==
  /\ InvokedTwiceBound
  /\ last.st = "ok"
  /\ last.ret.tag = "tuple"
  /\ Len(At(saved_closures_, last.func).last_args) = 1
  /\ Len(At(saved_closures_, last.func).func.last_args) = 1
  /\ At(saved_closures_, last.func).last_args # At(saved_closures_, last.func).func.last_args

\* the error a call of the stateful interface ended with ("" when it returned)
ErrorOf(call) ==
  IF call.st = "ok" THEN ""
  ELSE IF call.ret.tag = "error" THEN call.ret.v ELSE "other"

\* a failed set_input, invoke_stateful, get_output or get_output_arity leaves
\* the stored inputs and outputs of every function as they were
FailureStoresNothing ==
  (/\ last'.op \in {"SetInputFor", "InvokeStateful", "GetOutputOf", "GetOutputArityOf"}
   /\ last'.st # "ok")
    => inputs_' = inputs_ /\ outputs_' = outputs_

\* get_output and get_output_arity of a function no invoke_stateful succeeded
\* for fail with NoOutputSaved
OutputNeedsInvoke ==
  (last'.op \in {"GetOutputOf", "GetOutputArityOf"} /\ last'.func \notin last.invoked)
    => ErrorOf(last') = "NoOutputSaved"

\* C27 (as stated): invoke_stateful(f) fails with NoInputsSet unless a
\* set_input(f, ...) succeeded before it; get_output(f, ...) and
\* get_output_arity(f, ...) fail with NoOutputSaved unless an invoke_stateful(f)
\* succeeded before them; a failed set_input, invoke_stateful or get_output
\* leaves the stored inputs and outputs of every function unchanged.
C27_StatefulProtocol ==
  [][nops' = nops + 1 =>
       /\ (last'.op = "InvokeStateful" /\ last'.func \notin last.seeded)
            => ErrorOf(last') = "NoInputsSet"
       /\ OutputNeedsInvoke
       /\ FailureStoresNothing]_vars

\* C27 (amended): as stated, but invoke_stateful of a name that is no function
\* of the executable fails with UnknownFunction, the function map being looked
\* at before the stored inputs.
C27_StatefulProtocolKnown ==
  [][nops' = nops + 1 =>
       /\ (last'.op = "InvokeStateful" /\ last'.func \notin last.seeded)
            => ErrorOf(last') = (IF FuncMapFind(exec_, last'.func) = 0
                                 THEN "UnknownFunction" ELSE "NoInputsSet")
       /\ OutputNeedsInvoke
       /\ FailureStoresNothing]_vars

\* an invoke_stateful of a function with stored inputs failed in the function
C27_Witness ==
  /\ last.op = "InvokeStateful"
  /\ last.func \in last.seeded
  /\ last.st = "throw"
  /\ Count(inputs_, last.func) = 1
  /\ Count(outputs_, last.func) = 0

\* the calls of a trace that were made at depth d of the frame stack
AtDepth(trace, d) == SelectSeq(trace, LAMBDA e : e.d = d)

\* the instrument answered SkipRun
IsSkipReply(reply) == reply = IntVal(kSkipRun)

\* the calls t made for the Calls of one frame follow one another as C28 says:
\* each Call begins with the pre-call hook; after a SkipRun reply nothing else
\* is called for it; after any other reply the real call follows, and when it
\* has returned the post-call hook follows, with the real call's return value
HookOrder(t) ==
  \A i \in 1..Len(t) :
    /\ t[i].what = "pre"
         => (i = 1 \/ t[i-1].what = "post"
             \/ (t[i-1].what = "pre" /\ IsSkipReply(t[i-1].reply)))
    /\ t[i].what = "real"
         => (i > 1 /\ t[i-1].what = "pre" /\ ~IsSkipReply(t[i-1].reply)
             /\ t[i-1].func_idx = t[i].func_idx)
    /\ t[i].what = "returned"
         => (i > 1 /\ t[i-1].what = "real" /\ t[i-1].func_idx = t[i].func_idx)
    /\ t[i].what = "post"
         => (i > 1 /\ t[i-1].what = "returned" /\ t[i-1].func_idx = t[i].func_idx
             /\ t[i].ret = t[i-1].ret)
    /\ (t[i].what = "pre" /\ ~IsSkipReply(t[i].reply))
         => (i < Len(t) /\ t[i+1].what = "real")
    /\ t[i].what = "returned" => (i < Len(t) /\ t[i+1].what = "post")

\* main's first instruction is a Call with an ordinary dst register that the
\* installed instrument skips
MainStartsWithSkippedCall ==
  /\ FuncMapFind(exec_, "main") # 0
  /\ GetInstruction(exec_, MainFunc(exec_).start_instr).op = "Call"
  /\ GetInstruction(exec_, MainFunc(exec_).start_instr).dst < kBeginSpecialReg
  /\ instrument_ # NoInstrument
  /\ IsSkipReply(InstrumentReply(instrument_,
       GetFuncName(exec_, GetInstruction(exec_, MainFunc(exec_).start_instr).func_idx), TRUE))

\* C28: with an instrument installed every Call runs the pre-call hook first;
\* on a SkipRun reply the real call and the post-call hook are not run, the
\* Call's ordinary dst register receives null and pc advances by 1; on any
\* other reply, a non-integer one included, the pre-call hook, the real call and
\* the post-call hook run in this order, each once, and the post-call hook
\* receives the real call's return value.
C28_InstrumentOrder ==
  (last.op = "Invoke" /\ instrument_ # NoInstrument) =>
    /\ \A d \in 0..(MaxFuel + 1) : HookOrder(AtDepth(last.hooks, d))
    /\ (last.func = "main" /\ MainStartsWithSkippedCall) =>
         /\ FirstCallOfMain(last.args).st = "ok"
         /\ FirstCallOfMain(last.args).vm.pc_ = MainFunc(exec_).start_instr + 1
         /\ TopRegisters(FirstCallOfMain(last.args).vm)
              [GetInstruction(exec_, MainFunc(exec_).start_instr).dst + 1] = NullValue
         /\ Len(FirstCallOfMain(last.args).vm.hooks) = 1
         /\ FirstCallOfMain(last.args).vm.hooks[1].what = "pre"

\* an invocation under an instrument that skips the kernel add only: a Call
\* was skipped and another one went through both hooks
C28_Witness ==
  /\ last.op = "Invoke" /\ last.st = "ok"
  /\ instrument_ = "skipadd"
  /\ \E i \in 1..Len(last.hooks) :
       last.hooks[i].what = "pre" /\ IsSkipReply(last.hooks[i].reply)
  /\ \E i \in 1..Len(last.hooks) : last.hooks[i].what = "post"

\* the real calls of a trace, with the arguments the callees were given
RealCalls(trace) == SelectSeq(trace, LAMBDA e : e.what = "real")

\* the last invocation, made on this VM with no instrument installed
Uninstrumented ==
  InvokeClosure([VM("crash") EXCEPT !.instrument_ = NoInstrument], last.func, last.args)

\* the instruments that skip no call
NeverSkips(instrument) == instrument \in {"noop", "text", "two"}

\* C29: an installed instrument that does not skip leaves what the callees
\* receive as it is without an instrument: the real calls of an invocation get
\* the same arguments, values and type tags, a data type included.
C29_InstrumentKeepsArguments ==
  (last.op = "Invoke" /\ NeverSkips(instrument_))
    => RealCalls(last.hooks) = RealCalls(Uninstrumented.vm.hooks)

\* the same for invocations whose arguments hold no data type
KeepsArgumentsWithoutDataType ==
  (/\ last.op = "Invoke" /\ NeverSkips(instrument_)
   /\ \A i \in 1..Len(last.args) : last.args[i].tag # "dtype")
    => RealCalls(last.hooks) = RealCalls(Uninstrumented.vm.hooks)

\* func_name is a bytecode function of the executable, the kind InvokeBytecode
\* runs
IsBytecodeFunc(func_name) ==
  /\ FuncMapFind(exec_, func_name) # 0
  /\ exec_.func_table[FuncMapFind(exec_, func_name)].kind = "kVMFunc"

\* r is an exit of InvokeBytecode, by return or by error, that restored the
\* control state of vm: the depth of the frame stack and pc are those of vm,
\* and the frame it pushed is the last of the free list, all registers null
Restored(vm, r) ==
  r.st \in {"ok", "throw"} =>
    /\ Len(r.vm.frames_) = Len(vm.frames_)
    /\ r.vm.pc_ = vm.pc_
    /\ r.vm.frame_free_list_ # <<>>
    /\ \A i \in 1..Len(r.vm.frame_free_list_[Len(r.vm.frame_free_list_)].register_file) :
         r.vm.frame_free_list_[Len(r.vm.frame_free_list_)].register_file[i] = NullValue

\* the invocation of helper(args) from inside main, main's frame on the stack
NestedInvocation(args) ==
  InvokeBytecode(EnteredMain(args), FuncMapFind(exec_, "helper"), args, MaxFuel)

\* C30: InvokeBytecode restores the control state on every exit, by return and
\* by error (wrong argument count, pc in an invalid section, If with
\* false_offset <= 1, error of a kernel), at the top and nested in another
\* invocation: the frame stack is as deep as before, pc is what it was, and the
\* frame it pushed lies on the free list with all registers null.
C30_InvokeBytecodeRestores ==
  [][(nops' = nops + 1 /\ last'.op = "Invoke" /\ IsBytecodeFunc(last'.func)) =>
       /\ Restored(VM("crash"), [st |-> last'.st, vm |-> VM("crash")'])
       /\ (IsBytecodeFunc("main") /\ IsBytecodeFunc("helper") /\ Len(last'.args) = 1)
            => Restored(EnteredMain(last'.args), NestedInvocation(last'.args))]_vars

\* an invocation of main failed in a kernel called two frames deep; both
\* frames lie on the free list
C30_Witness ==
  /\ last.op = "Invoke" /\ last.func = "main" /\ last.st = "throw"
  /\ exec_ = ExecDeepFailing
  /\ Len(last.args) = 1
  /\ Len(frame_free_list_) = 2
  /\ frames_ = <<>>

\* the ids of the frames of the active stack and of the free list, in order
FrameIds(vm) ==
  [i \in 1..(Len(vm.frames_) + Len(vm.frame_free_list_)) |->
     IF i <= Len(vm.frames_) THEN vm.frames_[i].id
     ELSE vm.frame_free_list_[i - Len(vm.frames_)].id]

\* every frame PushFrame allocated is on the active stack or on the free list,
\* exactly once
Conserved(vm) ==
  /\ Len(vm.frames_) + Len(vm.frame_free_list_) = vm.allocated
  /\ {FrameIds(vm)[i] : i \in 1..Len(FrameIds(vm))} = 1..vm.allocated

\* C31: in every state between two calls, and inside an invocation of main and
\* of helper nested in it, the frames of the free list and of the active stack
\* are the frames PushFrame ever allocated, each of them once.
C31_FrameConservation ==
  ~crashed =>
    /\ Conserved(VM("crash"))
    /\ IsBytecodeFunc("main") => Conserved(EnteredMain(<<NullValue>>))
    /\ (IsBytecodeFunc("main") /\ IsBytecodeFunc("helper"))
         => Conserved(NestedInvocation(<<NullValue>>).vm)

\* two frames were allocated by a nested invocation and recycled by a later one
C31_Witness ==
  /\ last.op = "Invoke" /\ nops >= 2
  /\ last.allocated = 2
  /\ Len(frame_free_list_) = 2
  /\ frames_ = <<>>

\* the frame on top of the active stack is as a push for vm_func with ret_pc
\* has to leave it
PushedFrameIsClean(vm, ret_pc, vm_func) ==
  /\ Len(TopRegisters(vm)) = vm_func.register_file_size
  /\ \A i \in 1..Len(TopRegisters(vm)) : TopRegisters(vm)[i] = NullValue
  /\ vm.frames_[Len(vm.frames_)].caller_return_register = 0
  /\ vm.frames_[Len(vm.frames_)].call_arg_values = <<>>
  /\ vm.frames_[Len(vm.frames_)].return_pc = ret_pc

\* C32: directly after PushFrame(return_pc, func_info), for every function of
\* the executable and every return pc, with the free list as any earlier calls
\* left it (empty, or holding frames that served functions with a smaller or a
\* larger register file) and also with main's frame on the stack, the pushed
\* frame has func_info.register_file_size registers, all null, its
\* caller_return_register is 0, its call buffers are empty and its return_pc is
\* the given one.
C32_PushedFrameIsFresh ==
  ~crashed =>
    \A i \in 1..Len(exec_.func_table), ret_pc \in 0..InstrCount(exec_) :
      /\ PushedFrameIsClean(PushFrame(VM("crash"), ret_pc, exec_.func_table[i]),
                            ret_pc, exec_.func_table[i])
      /\ IsBytecodeFunc("main")
           => PushedFrameIsClean(PushFrame(EnteredMain(<<IntVal(1)>>), ret_pc,
                                           exec_.func_table[i]),
                                 ret_pc, exec_.func_table[i])

\* the free list holds a frame that served an invocation with a non-null
\* argument and whose register file is smaller than one function's and larger
\* than another's
C32_Witness ==
  /\ last.op = "Invoke" /\ last.st = "ok" /\ last.args = <<IntVal(1)>>
  /\ frame_free_list_ # <<>>
  /\ \E i \in 1..Len(exec_.func_table) :
       exec_.func_table[i].register_file_size
         > Len(frame_free_list_[Len(frame_free_list_)].register_file)
  /\ \E i \in 1..Len(exec_.func_table) :
       exec_.func_table[i].register_file_size
         < Len(frame_free_list_[Len(frame_free_list_)].register_file)

\* main's first instruction is a Call of the bytecode function helper
MainCallsHelper ==
  /\ IsBytecodeFunc("main") /\ IsBytecodeFunc("helper")
  /\ GetInstruction(exec_, MainFunc(exec_).start_instr).op = "Call"
  /\ GetInstruction(exec_, MainFunc(exec_).start_instr).func_idx = FuncMapFind(exec_, "helper")

HelperFunc == exec_.func_table[FuncMapFind(exec_, "helper")]

\* the VM inside helper(args) called by main's first instruction, main(args)
\* being invoked from outside, before helper's first instruction
EnteredHelper(args) ==
  [WriteArgs([PushFrame(EnteredMain(args), MainFunc(exec_).start_instr, HelperFunc)
                EXCEPT !.frames_[Len(frames_) + 2].caller_return_register =
                         GetInstruction(exec_, MainFunc(exec_).start_instr).dst],
             Len(frames_) + 2, args, 1).vm
     EXCEPT !.pc_ = HelperFunc.start_instr]

\* the VM inside helper(args) invoked from outside, before its first instruction
EnteredHelperAlone(args) ==
  [WriteArgs(PushFrame(VM("crash"), pc_, HelperFunc), Len(frames_) + 1, args, 1).vm
     EXCEPT !.pc_ = HelperFunc.start_instr]

\* vm after the first instruction of helper, when that is no Ret
BeforeRet(vm) ==
  IF GetInstruction(exec_, vm.pc_).op = "Ret" THEN vm
  ELSE RunInstr(vm, Len(vm.frames_), GetInstruction(exec_, vm.pc_), MaxFuel).vm

\* vm stands at a Ret of the frame on top of the stack
AtRet(vm) ==
  /\ vm.pc_ >= 0 /\ vm.pc_ < InstrCount(exec_)
  /\ GetInstruction(exec_, vm.pc_).op = "Ret"
  /\ GetInstruction(exec_, vm.pc_).result < Len(TopRegisters(vm))

\* the Ret that vm stands at
RetOf(vm) == RunInstrRet(vm, Len(vm.frames_), GetInstruction(exec_, vm.pc_))

\* the value the Ret that vm stands at has to return
RetValue(vm) == TopRegisters(vm)[GetInstruction(exec_, vm.pc_).result + 1]

\* the Ret of a frame with a parent did what C33 says
RetWroteCaller(vm) ==
  /\ RetOf(vm).st = "ok"
  /\ RetOf(vm).vm.return_value_ = RetValue(vm)
  /\ vm.frames_[Len(vm.frames_)].caller_return_register
       \in 0..(Len(vm.frames_[Len(vm.frames_) - 1].register_file) - 1)
  /\ \A i \in 1..Len(vm.frames_[Len(vm.frames_) - 1].register_file) :
       RetOf(vm).vm.frames_[Len(vm.frames_) - 1].register_file[i] =
         IF i = vm.frames_[Len(vm.frames_)].caller_return_register + 1 THEN RetValue(vm)
         ELSE vm.frames_[Len(vm.frames_) - 1].register_file[i]

\* C33: a Ret in a frame with a parent frame on the stack leaves the returned
\* value in the parent's register caller_return_register (the dst of the Call
\* that invoked the frame) and in return_value_, and changes no other register
\* of the parent; a Ret with no parent frame sets return_value_ only.
C33_RetWritesCaller ==
  (last.op = "Invoke" /\ Len(last.args) = 1 /\ ~crashed) =>
    /\ (MainCallsHelper /\ AtRet(BeforeRet(EnteredHelper(last.args))))
         => RetWroteCaller(BeforeRet(EnteredHelper(last.args)))
    /\ (IsBytecodeFunc("helper") /\ AtRet(BeforeRet(EnteredHelperAlone(last.args))))
         => (/\ RetOf(BeforeRet(EnteredHelperAlone(last.args))).st = "ok"
             /\ RetOf(BeforeRet(EnteredHelperAlone(last.args))).vm =
                  [BeforeRet(EnteredHelperAlone(last.args))
                     EXCEPT !.return_value_ = RetValue(BeforeRet(EnteredHelperAlone(last.args)))])

\* the same for Calls whose dst is an ordinary register
RetWritesOrdinaryDst ==
  (/\ last.op = "Invoke" /\ Len(last.args) = 1 /\ ~crashed
   /\ MainCallsHelper /\ AtRet(BeforeRet(EnteredHelper(last.args)))
   /\ GetInstruction(exec_, MainFunc(exec_).start_instr).dst < kBeginSpecialReg)
    => RetWroteCaller(BeforeRet(EnteredHelper(last.args)))

\* C34: every instruction fetch uses a pc that indexes an existing instruction.
\* GetOutput and invoke_bytecode fetch the instruction at the pc the call
\* before them left, so between two calls pc indexes an instruction.
C34_FetchInRange ==
  ~crashed => (pc_ >= 0 /\ pc_ < InstrCount(exec_))

------------------------------------------------------------------------------
\* If and Goto, instruction by instruction.

\* the VM with v in register 0 of the persistent frame
WithCondition(vm, v) ==
  SetFrame(vm, SegFrameRef,
           [GetFrame(vm, SegFrameRef) EXCEPT !.register_file[1] = IntVal(v)])

\* what an If at vm.pc_ on register 0 holding v must leave: the pc moved, or the
\* fatal error, and nothing else touched
IfOutcome(vm, v, false_offset) ==
  IF v # 0 THEN Ok([vm EXCEPT !.pc_ = vm.pc_ + 1], NullValue)
  ELSE IF false_offset > 1 THEN Ok([vm EXCEPT !.pc_ = vm.pc_ + false_offset], NullValue)
  ELSE Fail(vm, "throw")

\* the If of RunLoop, of SegmentRunnerRun and of SegmentRunnerGetSkeleton on the
\* same frame
IfInAllThree(vm, v, false_offset) ==
  LET before == WithCondition(vm, v)
      want == IfOutcome(before, v, false_offset)
      skel == SkeletonStep(before, SegFrameRef, IIf(0, false_offset))
  IN /\ RunInstr(before, SegFrameRef, IIf(0, false_offset), MaxFuel) = want
     /\ RunSegmentInstr(before, IIf(0, false_offset)) = want
     /\ skel.st = want.st /\ skel.vm = want.vm

\* the Goto of the three loops: the pc moves by the offset, nothing else changes
GotoInAllThree(vm, pc_offset) ==
  LET want == Ok([vm EXCEPT !.pc_ = vm.pc_ + pc_offset], NullValue)
      skel == SkeletonStep(vm, SegFrameRef, IGoto(pc_offset))
  IN /\ RunInstr(vm, SegFrameRef, IGoto(pc_offset), MaxFuel) = want
     /\ RunSegmentInstr(vm, IGoto(pc_offset)) = want
     /\ skel.st = "ok" /\ skel.vm = want.vm

\* C35: an If at pc p whose condition register holds v sets the pc to p + 1 when
\* v is non-zero (a negative v included), to p + false_offset when v is zero and
\* false_offset is above 1, and is a fatal error when v is zero and false_offset
\* is at most 1; RunLoop, SegmentRunnerRun and SegmentRunnerGetSkeleton do the
\* same, and neither an If nor a Goto changes a register.
C35_IfAndGoto ==
  (~crashed /\ segments_frame_ # <<>> /\ Len(segments_frame_[1].register_file) > 0)
    => /\ \A v \in {-1, 0, 1}, false_offset \in 1..2 : IfInAllThree(VM("crash"), v, false_offset)
       /\ \A pc_offset \in {-1, 2} : GotoInAllThree(VM("crash"), pc_offset)

\* a segment of the conditional executable that ends in its If has run with a
\* zero condition: the pc is the If's pc plus its false_offset
C35_Witness ==
  /\ last.op = "Run" /\ last.st = "ok" /\ exec_.name = "condinput"
  /\ last.id >= 0 /\ last.id < Len(per_segment_pc_list_)
  /\ segments_frame_ # <<>>
  /\ LET pcs == per_segment_pc_list_[last.id + 1]
     IN /\ Len(pcs) > 0
        /\ pcs[Len(pcs)] >= 0 /\ pcs[Len(pcs)] < InstrCount(exec_)
        /\ GetInstruction(exec_, pcs[Len(pcs)]).op = "If"
        /\ AsInt64(segments_frame_[1].register_file[1]) = 0
        /\ pc_ = pcs[Len(pcs)] + GetInstruction(exec_, pcs[Len(pcs)]).false_offset

------------------------------------------------------------------------------
\* The entries of a segment, one instruction each.

\* the last call was a Run of an existing segment that returned its id
RanSegment ==
  /\ ~crashed /\ last.op = "Run" /\ last.st = "ok"
  /\ last.id >= 0 /\ last.id < Len(per_segment_pc_list_)
  /\ last.ret = IntVal(last.id)

\* the pcs of the Calls the Run itself decoded, in the order of the log; the
\* Calls of a bytecode callee are logged one frame deeper
DecodedCalls ==
  LET own == SelectSeq(last.log, LAMBDA e : e.msg = "call" /\ e.d = Len(frames_))
  IN [k \in 1..Len(own) |-> own[k].n]

\* the listed pcs that hold a Call, in list order
ListedCalls(pcs) ==
  SelectSeq(pcs, LAMBDA p : GetInstruction(exec_, p).op = "Call")

\* the pc an instruction at p leaves when it is executed on the persistent frame
\* as the Run left it (an If or a Goto changes no register)
PcAfterEntry(p) ==
  LET instr == GetInstruction(exec_, p)
  IN IF instr.op = "Call" THEN p + 1
     ELSE IF instr.op = "Goto" THEN p + instr.pc_offset
     ELSE IF AsInt64(segments_frame_[1].register_file[instr.cond + 1]) # 0 THEN p + 1
     ELSE p + instr.false_offset

\* C36: a successful Run(i) decodes one instruction per entry of segment i, in
\* list order and at the listed pc, whatever pc the entry before computed: the
\* Calls it executed are the listed Calls in list order, every listed pc holds
\* an instruction that is not a Ret, and the pc afterwards is the one the last
\* entry alone produces (p + 1 for a Call at p).
C36_OneInstructionPerEntry ==
  RanSegment =>
    LET pcs == per_segment_pc_list_[last.id + 1]
    IN /\ \A k \in 1..Len(pcs) :
            /\ pcs[k] >= 0 /\ pcs[k] < InstrCount(exec_)
            /\ GetInstruction(exec_, pcs[k]).op # "Ret"
       /\ DecodedCalls = ListedCalls(pcs)
       /\ Len(pcs) > 0 => pc_ = PcAfterEntry(pcs[Len(pcs)])

\* a segment listing the If at pc 0 and the Call at pc 1 has run with a zero
\* condition: the If computed pc 3, the Call at the listed pc 1 was executed
\* all the same and left pc 2
C36_Witness ==
  /\ RanSegment /\ exec_.name = "condinput"
  /\ per_segment_pc_list_[last.id + 1] = <<0, 1>>
  /\ AsInt64(segments_frame_[1].register_file[1]) = 0
  /\ DecodedCalls = <<1>>
  /\ pc_ = 2

------------------------------------------------------------------------------
\* A Load that fails.

\* the call just made is a Load that returned -1 or raised an error
LoadFailed(call) ==
  call.op = "Load" /\ (call.st = "throw" \/ (call.st = "ok" /\ call.ret = IntVal(-1)))

\* the registers of the persistent frame, none when there is no frame
SegmentRegisters(frame) ==
  IF frame = <<>> THEN <<>> ELSE frame[1].register_file

\* C37: a Load that fails leaves the segment table (the number of segments and
\* their pcs), the pc and the registers of the persistent frame as they were
\* before the call.
C37_FailedLoadKeepsState ==
  [][(nops' = nops + 1 /\ LoadFailed(last'))
       => (/\ per_segment_pc_list_' = per_segment_pc_list_
           /\ pc_' = pc_
           /\ SegmentRegisters(segments_frame_') = SegmentRegisters(segments_frame_))]_vars

\* the part of the claim that the code keeps: a failed Load leaves the pc and
\* the registers of the persistent frame alone
FailedLoadKeepsPcAndFrame ==
  [][(nops' = nops + 1 /\ LoadFailed(last'))
       => (/\ pc_' = pc_
           /\ SegmentRegisters(segments_frame_') = SegmentRegisters(segments_frame_))]_vars

------------------------------------------------------------------------------
\* The initialized flag and the persistent frame.

\* the persistent frame exists and has the register file of main
FrameOfMain ==
  /\ segments_frame_ # <<>>
  /\ FuncMapFind(exec_, "main") # 0
  /\ Len(segments_frame_[1].register_file)
       = exec_.func_table[FuncMapFind(exec_, "main")].register_file_size

\* C38: in every state where the runner is marked initialized the persistent
\* frame exists and has main's register_file_size registers, also after a Load
\* that failed because the executable has no function named main.
C38_InitializedHasFrame ==
  (~crashed /\ are_segments_initialized_) => FrameOfMain

\* the part of the claim that the code keeps: on an executable that has a main
\* the flag is set only together with the frame
InitializedHasFrameWithMain ==
  (~crashed /\ are_segments_initialized_ /\ FuncMapFind(exec_, "main") # 0) => FrameOfMain

------------------------------------------------------------------------------
\* Loops: the walk of GetSkeleton against the nominal run.

\* main(x): pc 0 Call r1 = one(); pc 1 If r1 false_offset=2; pc 2 Ret r1;
\* pc 3 Goto -3.  The exit If reads the register the Call of the loop writes.
ExecLoopExit ==
  [name |-> "loopexit",
   func_table |-> <<FVM("main", 1, 2, 0), FPacked("one")>>,
   instrs |-> <<ICall(1, 2, <<>>), IIf(1, 2), IRet(1), IGoto(-3)>>]

\* main(x): pc 0 If r0 false_offset=2; pc 1 Goto -1; pc 2 Ret r0.  The loop is
\* entered only with a non-zero argument.
ExecLoopOnInput ==
  [name |-> "looponinput",
   func_table |-> <<FVM("main", 1, 1, 0)>>,
   instrs |-> <<IIf(0, 2), IGoto(-1), IRet(0)>>]

LoopExecutables == {ExecLoopExit, ExecLoopOnInput, ExecCondCall}

LoopInit == drv = Idle /\ \E exec \in LoopExecutables : Constructed(exec)

SpecLoop == LoopInit /\ [][Next]_vars

\* the nominal execution of main, from null registers, comes to its Ret
NominalTerminates(exec) ==
  Monolithic(exec, [i \in 1..MainFunc(exec).num_args |-> NullValue]).st = "ok"

RECURSIVE WalkRevisits(_, _, _, _)
\* the walk of GetSkeleton comes back to a pc it has decoded before; as the walk
\* writes no register it then repeats for ever
WalkRevisits(vm, ref, seen, fuel) ==
  IF fuel = 0 THEN FALSE
  ELSE IF ~(vm.pc_ >= 0 /\ vm.pc_ < InstrCount(vm.exec_)) THEN FALSE
  ELSE IF vm.pc_ \in seen THEN TRUE
  ELSE IF GetInstruction(vm.exec_, vm.pc_).op = "Ret" THEN FALSE
  ELSE LET s == SkeletonStep(vm, ref, GetInstruction(vm.exec_, vm.pc_))
       IN s.st = "ok" /\ WalkRevisits(s.vm, ref, seen \cup {vm.pc_}, fuel - 1)

\* C39: GetSkeleton terminates for every main whose nominal RunLoop execution
\* terminates, a loop whose exit If reads a register written by a Call of the
\* loop included.
C39_SkeletonTerminates ==
  (last.op = "GetSkeleton" /\ NominalTerminates(exec_)) => last.st # "diverge"

\* the walk that did not stop is a walk in a cycle
DivergedWalkCycles ==
  (last.op = "GetSkeleton" /\ last.st = "diverge")
    => LET main == MainFunc(exec_)
           vm == PushFrame(FreshVM(exec_, "crash"), 0, main)
       IN WalkRevisits([vm EXCEPT !.pc_ = main.start_instr], Len(vm.frames_), {}, MaxFuel)

\* on the other executables the walk comes to a Ret
SkeletonTerminatesWithoutLoop ==
  (last.op = "GetSkeleton" /\ exec_.name # "loopexit") => last.st # "diverge"

------------------------------------------------------------------------------
\* Run and the frame stack.

\* the step is a Run that came back, with its result or with an error
RunCameBack == nops' = nops + 1 /\ last'.op = "Run" /\ ~crashed'

\* no frame of stack or free_list is the persistent frame (frame 0)
PersistentFrameApart(stack, free_list) ==
  /\ \A k \in 1..Len(stack) : stack[k].id # 0
  /\ \A k \in 1..Len(free_list) : free_list[k].id # 0

\* the Run just made went through a segment whose one entry is a Call of a
\* bytecode function
RanBytecodeCall ==
  /\ RunCameBack /\ last'.st = "ok" /\ last'.ret = IntVal(last'.id)
  /\ last'.id >= 0 /\ last'.id < Len(per_segment_pc_list_)
  /\ Len(per_segment_pc_list_[last'.id + 1]) = 1
  /\ LET instr == GetInstruction(exec_, per_segment_pc_list_[last'.id + 1][1])
     IN instr.op = "Call" /\ exec_.func_table[instr.func_idx].kind = "kVMFunc"

\* what the bytecode function of the Call at p returns on the arguments the
\* persistent frame holds before the Run
CalleeReturns(p) ==
  LET instr == GetInstruction(exec_, p)
      args == CallArgs(VM("crash"), SegFrameRef, instr.args, 1).ret
  IN InvokeClosure(FreshVM(exec_, "crash"), exec_.func_table[instr.func_idx].name, args).ret

\* the callee's frame was pushed and popped inside the Run: the stack is as
\* before, the free list holds the frame, cleared, as its last one, and the
\* callee's own Calls ran one frame above the Run's
CalleeFramePushedAndPopped ==
  /\ frames_' = frames_
  /\ Len(frame_free_list_') = (IF frame_free_list_ = <<>> THEN 1 ELSE Len(frame_free_list_))
  /\ LET f == frame_free_list_'[Len(frame_free_list_')]
     IN f = FrameClear(f) /\ f.id # 0
  /\ \A k \in 1..Len(last'.log) :
       last'.log[k].msg = "call" => last'.log[k].d \in {Len(frames_), Len(frames_) + 1}
  /\ \E k \in 1..Len(last'.log) :
       last'.log[k].msg = "call" /\ last'.log[k].d = Len(frames_) + 1

\* C40: after every Run, successful or not, the active frame stack is as the Run
\* found it and the persistent frame is in neither the stack nor the free list;
\* when the segment's Call invokes a bytecode function the callee's frame is
\* pushed and popped inside the Run, the return value is in the Call's dst
\* register of the persistent frame and the pc is the Call's pc + 1.
C40_RunKeepsFrameStack ==
  [][/\ RunCameBack => (/\ frames_' = frames_
                        /\ PersistentFrameApart(frames_', frame_free_list_'))
     /\ RanBytecodeCall =>
          LET p == per_segment_pc_list_[last'.id + 1][1]
              dst == GetInstruction(exec_, p).dst
          IN /\ CalleeFramePushedAndPopped
             /\ dst < kBeginSpecialReg
                  => segments_frame_'[1].register_file[dst + 1] = CalleeReturns(p)
             /\ pc_' = p + 1]_vars

\* Run(0) of the nested executable has executed main's Call of helper on an input:
\* the stack is empty, helper's frame lies cleared on the free list, register 1
\* of the persistent frame holds helper's result and the pc is 3
C40_Witness ==
  /\ ~crashed /\ last.op = "Run" /\ last.st = "ok" /\ last.ret = IntVal(0)
  /\ exec_.name = "nested" /\ per_segment_pc_list_[1] = <<2>>
  /\ frames_ = <<>> /\ Len(frame_free_list_) = 1
  /\ segments_frame_[1].register_file[1] = IntVal(1)
  /\ segments_frame_[1].register_file[2] = IntVal(2)
  /\ pc_ = 3
====
